---- MODULE Spec2Model ----
(***************************************************************************)
(* Strategy and risk decision engine of the 3x trading bot: the replay     *)
(* driver (backtest.py, class CryptoBacktest) and the live bot             *)
(* (bot_20250908021956.py, class CryptoTradingBot).                        *)
(*                                                                         *)
(* Numbers.  Python floats are modelled as exact rationals <<n, d>> with   *)
(* d > 0 and gcd(n, d) = 1: the arithmetic below is that of the real       *)
(* numbers, float rounding is not modelled.  A float that may be NaN (the  *)
(* oscillator during warm-up) and a reference that may be None are sets    *)
(* with at most one element: {} is NaN / None, so that every comparison    *)
(* with NaN is false, as in Python.                                        *)
(***************************************************************************)
EXTENDS Integers, Sequences, FiniteSets, TLC

\* ------------------------------------------------------------ rationals

Abs(x) == IF x < 0 THEN -x ELSE x

RECURSIVE GCD(_, _)
GCD(a, b) == IF b = 0 THEN a ELSE GCD(b, a % b)

Norm(n, d) ==
    LET g == GCD(Abs(n), Abs(d))
        s == IF d < 0 THEN -1 ELSE 1
    IN  <<(s * n) \div g, (s * d) \div g>>

R(n) == <<n, 1>>
Frac(n, d) == Norm(n, d)
\* Sums and comparisons go through the least common denominator.
RAdd(a, b) ==
    LET g == GCD(a[2], b[2])
    IN  Norm(a[1] * (b[2] \div g) + b[1] * (a[2] \div g), (a[2] \div g) * b[2])
RSub(a, b) == RAdd(a, <<-b[1], b[2]>>)
RMul(a, b) ==
    LET x == Norm(a[1], b[2])
        y == Norm(b[1], a[2])
    IN  Norm(x[1] * y[1], x[2] * y[2])
RDiv(a, b) == RMul(a, Norm(b[2], b[1]))
RLt(a, b) ==
    LET g == GCD(a[2], b[2])
    IN  a[1] * (b[2] \div g) < b[1] * (a[2] \div g)
RLe(a, b) ==
    LET g == GCD(a[2], b[2])
    IN  a[1] * (b[2] \div g) <= b[1] * (a[2] \div g)
RGt(a, b) == RLt(b, a)
RGe(a, b) == RLe(b, a)
RNeg(a) == <<-a[1], a[2]>>
RAbs(a) == <<Abs(a[1]), a[2]>>
RMax(a, b) == IF RGe(a, b) THEN a ELSE b
RSign(a) == IF a[1] > 0 THEN 1 ELSE IF a[1] < 0 THEN -1 ELSE 0

None == {}
Some(x) == {x}
Val(o) == CHOOSE x \in o : TRUE

\* round(x, ndigits): to the nearest multiple of 10^-ndigits, a tie to the
\* even one.
round(x, ndigits) ==
    LET scale == 10 ^ ndigits
        m == x[1] * scale
        q == m \div x[2]
        r == m - q * x[2]
    IN  Frac(IF 2 * r > x[2] \/ (2 * r = x[2] /\ q % 2 = 1) THEN q + 1 ELSE q,
             scale)

\* ------------------------------------------------- strategy parameters
\* CryptoBacktest.__init__ (backtest.py 23-40); CryptoTradingBot.__init__
\* (bot 32-45) sets the same values.

symbols == <<"BTC", "ETH">>
Symbols == {symbols[k] : k \in 1..Len(symbols)}
initial_balance == 1000
leverage == 3
risk_per_trade == Frac(1, 100)
rsi_oversold == 30
rsi_overbought == 60
volume_multiplier == Frac(18, 10)
tp_percent == Frac(6, 100)
sl_percent == Frac(3, 100)
trailing_trigger == Frac(3, 100)
trailing_distance == Frac(15, 1000)
max_consecutive_losses == 3
commission_rate == Frac(4, 10000)
pause_hours == 24

\* ------------------------------------------------------ bounds, inputs

\* Rows of the data frame of one run of run_backtest_symbol.
MaxCandles == 8
\* Rows over all data frames of one run_full_backtest.
MaxBacktestRows == 7
\* The same, in a replay whose rows are recorded in the state.
MaxObservedRows == 4
\* Gaps (missing hours) in one symbol's recorded data.
MaxGaps == 1
\* Calls of the exchange that fail in a run of run_bot with failures.
MaxFaults == 1
\* Closing prices.
Prices == {100, 103, 105, 106}
\* Oscillator values: NaN (warm-up), below and at the oversold threshold,
\* above the overbought threshold.
RsiValues == {None, Some(20), Some(rsi_oversold), Some(70)}
\* Volume ratios: at and above the multiplier.
VolumeRatios == {volume_multiplier, Frac(19, 10)}

\* --------------------------------------------------------------- state

VARIABLES
    mode,               \* what runs: "backtest" (run_full_backtest), "run" (one
                        \* call of run_backtest_symbol), "rerun" (two calls
                        \* of it on one object and one df), "unordered" (one
                        \* call, on a df not sorted by time), "live" (run_bot),
                        \* "live_faults" (run_bot, calls of the exchange may
                        \* fail), "live_flat" (run_bot, one market price)
                        \* "sizer" (one call of the sizers) or "emergency"
                        \* (one run of emergency_close.py)
    observe,            \* whether the rows read are recorded in `row`
    faults,             \* how many more calls of the exchange may fail
    \* run_full_backtest / run_backtest_symbol
    pc,                 \* "start" | "loop" | "done"
    n_rows,             \* rows of each symbol's df consumed so far
    sym,                \* index in symbols of the run in progress
    row,                \* the row of this iteration (None: not recorded)
    current_time,
    balance,
    in_position,
    entry_price,
    entry_time,
    position_size,
    highest_price,
    consecutive_losses,
    paused_until,
    trades,             \* the run's list: per trade, the fields read later
                        \* (run_bot: the rows of the CSV file, when observed)
    trade,              \* the trade dict built in this iteration, with the
                        \* locals it is built from, or None
    all_trades,
    df,                 \* two calls on one df: its rows, as the first call
                        \* reads them and as the second has yet to
    \* CryptoTradingBot (run_bot); consecutive_losses, paused_until and
    \* current_time above are its attributes and local of the same names,
    \* trades is its CSV file, trade the trade_data dict of the last step
    open_positions,     \* the dict, as the sequence of its items in
                        \* insertion order
    todo,               \* symbols still to visit in the for loop in progress
    decision,           \* what the last step decided, when observed
    xch_position,       \* the exchange: quantity held per symbol
    xch_orders,         \* the exchange: resting orders
    xch_next_id,        \* the exchange: id of the next order
    \* one call of the two calculate_position_size
    sizer,
    \* one run of emergency_close.py: its command line, the operator's
    \* answer and the position of main
    closer

bt_locals == <<current_time, balance, in_position, entry_price, entry_time,
               position_size, highest_price, consecutive_losses, paused_until,
               trades>>
bt_vars == <<pc, n_rows, sym, row, bt_locals, trade, all_trades, df>>
bot_vars == <<open_positions, todo, decision, xch_position, xch_orders,
              xch_next_id>>
vars == <<mode, observe, faults, bt_vars, bot_vars, sizer, closer>>

\* Hours from one row to the next: consecutive 1h candles, or a gap in the
\* recorded data as long as a pause.  A df that is not sorted by time has
\* rows earlier than, or as early as, the row before.
UnorderedGaps == {-1, 0, 1}
Gaps == IF mode = "unordered" THEN UnorderedGaps ELSE {1, pause_hours}

\* ------------------------------------------------------- CryptoBacktest

\* NaN < k, NaN > k are False.
rsi_lt(rsi, k) == \E v \in rsi : v < k
rsi_gt(rsi, k) == \E v \in rsi : v > k
isna(x) == x = None

check_entry_signal(r) ==
    LET rsi_condition == rsi_lt(r.rsi, rsi_oversold)
        volume_condition == RGt(r.volume_ratio, volume_multiplier)
    IN  rsi_condition /\ volume_condition /\ ~isna(r.rsi)

\* (price - entry_price) / entry_price
profit_percent_of(price, entry) == RDiv(RSub(price, entry), entry)

\* check_exit_signal with the take-profit test moved before the RSI test.
check_exit_signal_tp_first(r, entry, highest) ==
    LET current_price == r.close
        profit_percent == profit_percent_of(current_price, entry)
        trailing_stop == RMul(highest, RSub(R(1), trailing_distance))
    IN  IF RGe(profit_percent, tp_percent)
        THEN <<TRUE, "TP", RMul(entry, RAdd(R(1), tp_percent))>>
        ELSE IF rsi_gt(r.rsi, rsi_overbought)
        THEN <<TRUE, "RSI_EXIT", current_price>>
        ELSE IF RLe(profit_percent, RNeg(sl_percent))
        THEN <<TRUE, "SL", RMul(entry, RSub(R(1), sl_percent))>>
        ELSE IF RGe(profit_percent, trailing_trigger)
                /\ RLe(current_price, trailing_stop)
        THEN <<TRUE, "TRAILING_SL", trailing_stop>>
        ELSE <<FALSE, "", current_price>>

\* check_exit_signal that takes profit at the price of the row.
check_exit_signal_at_close(r, entry, highest) ==
    LET current_price == r.close
        profit_percent == profit_percent_of(current_price, entry)
        trailing_stop == RMul(highest, RSub(R(1), trailing_distance))
    IN  IF rsi_gt(r.rsi, rsi_overbought)
        THEN <<TRUE, "RSI_EXIT", current_price>>
        ELSE IF RGe(profit_percent, tp_percent)
        THEN <<TRUE, "TP", current_price>>
        ELSE IF RLe(profit_percent, RNeg(sl_percent))
        THEN <<TRUE, "SL", RMul(entry, RSub(R(1), sl_percent))>>
        ELSE IF RGe(profit_percent, trailing_trigger)
                /\ RLe(current_price, trailing_stop)
        THEN <<TRUE, "TRAILING_SL", trailing_stop>>
        ELSE <<FALSE, "", current_price>>

\* [should_exit, exit_reason, exit_price]
check_exit_signal(r, entry, highest) ==
    LET current_price == r.close
        profit_percent == profit_percent_of(current_price, entry)
        trailing_stop == RMul(highest, RSub(R(1), trailing_distance))
    IN  IF rsi_gt(r.rsi, rsi_overbought)
        THEN <<TRUE, "RSI_EXIT", current_price>>
        ELSE IF RGe(profit_percent, tp_percent)
        THEN <<TRUE, "TP", RMul(entry, RAdd(R(1), tp_percent))>>
        ELSE IF RLe(profit_percent, RNeg(sl_percent))
        THEN <<TRUE, "SL", RMul(entry, RSub(R(1), sl_percent))>>
        ELSE IF RGe(profit_percent, trailing_trigger)
                /\ RLe(current_price, trailing_stop)
        THEN <<TRUE, "TRAILING_SL", trailing_stop>>
        ELSE <<FALSE, "", current_price>>

\* calculate_position_size without the conversion to base units.
bt_position_size_usdt(bal, entry, risk, lev) ==
    LET risk_amount == RMul(bal, risk)
        stop_distance == RMul(entry, sl_percent)
        position_size_usdt == RDiv(risk_amount, RDiv(stop_distance, entry))
    IN  RMul(position_size_usdt, R(lev))

\* calculate_position_size that risks a fraction of the profit made so far.
bt_position_size_of_profit(bal, entry, risk, lev) ==
    LET risk_amount == RMul(RSub(bal, R(initial_balance)), risk)
        stop_distance == RMul(entry, sl_percent)
        position_size_usdt == RDiv(risk_amount, RDiv(stop_distance, entry))
        position_size_base == RDiv(position_size_usdt, entry)
    IN  RMul(position_size_base, R(lev))

\* calculate_position_size with self.risk_per_trade and self.leverage as
\* arguments.
bt_position_size(bal, entry, risk, lev) ==
    LET risk_amount == RMul(bal, risk)
        stop_distance == RMul(entry, sl_percent)
        position_size_usdt == RDiv(risk_amount, RDiv(stop_distance, entry))
        position_size_base == RDiv(position_size_usdt, entry)
    IN  RMul(position_size_base, R(lev))

bt_calculate_position_size(bal, entry) ==
    bt_position_size(bal, entry, risk_per_trade, leverage)

\* run_backtest_symbol with the commission charged on the exit leg only.
bt_pnl_exit_leg(entry, exit, size) ==
    LET pnl_percent == RDiv(RSub(exit, entry), entry)
        pnl_usdt == RMul(RMul(pnl_percent, size), entry)
        commission == RMul(RMul(exit, size), commission_rate)
    IN  [pnl_percent |-> pnl_percent, pnl_usdt |-> pnl_usdt,
         commission |-> commission, net_pnl |-> RSub(pnl_usdt, commission)]

\* run_backtest_symbol, lines 212-217: the locals of a close.
bt_pnl(entry, exit, size) ==
    LET pnl_percent == RDiv(RSub(exit, entry), entry)
        pnl_usdt == RMul(RMul(pnl_percent, size), entry)
        commission == RMul(RMul(RAdd(entry, exit), size), commission_rate)
    IN  [pnl_percent |-> pnl_percent, pnl_usdt |-> pnl_usdt,
         commission |-> commission, net_pnl |-> RSub(pnl_usdt, commission)]

\* The balance is kept up to a positive scale factor.  Every amount of a
\* run (position size, PnL, commission) is proportional to the balance the
\* position was sized with, and the run reads amounts only through their
\* signs and ratios, so after a close the new balance is represented by
\* its sign, at the magnitude of the initial balance.  (The exact value
\* needs integers beyond 32 bits after two trades.)
bt_rescale(x) == R(RSign(x) * initial_balance)

\* all_trades.sort(key=lambda x: x['timestamp']): stable.
RECURSIVE bt_insert(_, _)
bt_insert(sorted, t) ==
    IF sorted = <<>> THEN <<t>>
    ELSE IF sorted[Len(sorted)].timestamp <= t.timestamp
         THEN Append(sorted, t)
         ELSE Append(bt_insert(SubSeq(sorted, 1, Len(sorted) - 1), t),
                     sorted[Len(sorted)])
RECURSIVE bt_sort(_)
bt_sort(ts) ==
    IF ts = <<>> THEN <<>>
    ELSE bt_insert(bt_sort(SubSeq(ts, 1, Len(ts) - 1)), ts[Len(ts)])

\* Lines 180-185: the pause check at the top of the loop body.
bt_is_paused(t) == \E p \in paused_until : t < p
bt_resumes(t) == \E p \in paused_until : t >= p

Replay == mode \in {"backtest", "run", "rerun", "unordered"}
\* The symbols run: all of self.symbols, or the one of a single call; two
\* calls on one df are calls 1 and 2 for the first symbol.
LastSym == IF mode \in {"run", "unordered"} THEN 1 ELSE Len(symbols)
bt_symbol == IF mode = "rerun" THEN symbols[1] ELSE symbols[sym]

\* The row and the trade dict of an iteration, recorded when observed.
bt_observed(x) == IF observe THEN Some(x) ELSE None

\* run_backtest_symbol that keeps the count of losses of the call before.
bt_StartRun_keeps_losses ==
    /\ Replay /\ pc = "start" /\ sym <= LastSym
    /\ pc' = "loop"
    /\ row' = None
    /\ current_time' = 0
    /\ trades' = <<>>
    /\ balance' = R(initial_balance)
    /\ in_position' = FALSE
    /\ entry_price' = R(0)
    /\ entry_time' = None
    /\ position_size' = R(0)
    /\ highest_price' = R(0)
    /\ paused_until' = None
    /\ trade' = None
    /\ UNCHANGED <<mode, observe, faults, n_rows, sym, all_trades, df,
                   bot_vars, sizer, closer, consecutive_losses>>

\* run_backtest_symbol, lines 166-174: the locals of a run.
bt_StartRun ==
    /\ Replay /\ pc = "start" /\ sym <= LastSym
    /\ pc' = "loop"
    /\ row' = None
    /\ current_time' = 0
    /\ trades' = <<>>
    /\ balance' = R(initial_balance)
    /\ in_position' = FALSE
    /\ entry_price' = R(0)
    /\ entry_time' = None
    /\ position_size' = R(0)
    /\ highest_price' = R(0)
    /\ consecutive_losses' = 0
    /\ paused_until' = None
    /\ trade' = None
    /\ UNCHANGED <<mode, observe, faults, n_rows, sym, all_trades, df,
                   bot_vars, sizer, closer>>

\* Lines 223-226 that keep the count of losses after a close without loss.
bt_losses_never_reset(net_pnl, losses) ==
    IF RLt(net_pnl, R(0)) THEN losses + 1 ELSE losses

\* Lines 223-226: the count of consecutive losses after a close.
bt_losses(net_pnl, losses) ==
    IF RLt(net_pnl, R(0)) THEN losses + 1 ELSE 0

\* The iteration that enters again, on the row that closed the position,
\* when the row is oversold.
bt_iteration_reenters(r) ==
    LET t == r.timestamp
        current_price == r.close
        pu1 == IF bt_resumes(t) THEN None ELSE paused_until
        cl1 == IF bt_resumes(t) THEN 0 ELSE consecutive_losses
        hp == IF RGt(current_price, highest_price)
              THEN current_price ELSE highest_price
        ex == check_exit_signal(r, entry_price, hp)
        exit_price == ex[3]
        locals == bt_pnl(entry_price, exit_price, position_size)
        pnl_percent == locals.pnl_percent
        commission == locals.commission
        net_pnl == locals.net_pnl
        cl2 == bt_losses(net_pnl, cl1)
        pu2 == IF cl2 >= max_consecutive_losses
               THEN Some(t + pause_hours) ELSE pu1
    IN  /\ row' = bt_observed(r)
        /\ current_time' = t
        /\ IF bt_is_paused(t)
           THEN /\ trade' = None
                /\ UNCHANGED <<balance, in_position, entry_price, entry_time,
                               position_size, highest_price, consecutive_losses,
                               paused_until, trades>>
           ELSE IF isna(r.rsi)
           THEN /\ paused_until' = pu1
                /\ consecutive_losses' = cl1
                /\ trade' = None
                /\ UNCHANGED <<balance, in_position, entry_price, entry_time,
                               position_size, highest_price, trades>>
           ELSE IF ~in_position
           THEN /\ paused_until' = pu1
                /\ consecutive_losses' = cl1
                /\ IF check_entry_signal(r)
                   THEN /\ entry_price' = current_price
                        /\ entry_time' = Some(t)
                        /\ position_size' =
                               bt_calculate_position_size(balance, current_price)
                        /\ highest_price' = current_price
                        /\ in_position' = TRUE
                   ELSE UNCHANGED <<in_position, entry_price, entry_time,
                                    position_size, highest_price>>
                /\ trade' = None
                /\ UNCHANGED <<balance, trades>>
           ELSE IF ex[1]
                   THEN /\ balance' = bt_rescale(RAdd(balance, net_pnl))
                        /\ consecutive_losses' = cl2
                        /\ paused_until' = pu2
                        /\ trade' = bt_observed([timestamp |-> t,
                                          symbol |-> bt_symbol,
                                          entry_price |-> entry_price,
                                          exit_price |-> exit_price,
                                          quantity |-> position_size,
                                          pnl_usdt |-> round(net_pnl, 2),
                                          pnl_percent |->
                                              round(RMul(pnl_percent, R(100)), 2),
                                          reason |-> ex[2],
                                          holding_hours |-> t - Val(entry_time),
                                          commission_usdt |->
                                              round(commission, 2),
                                          locals |-> locals])
                        /\ trades' = Append(trades,
                                            [timestamp |-> t,
                                             symbol |-> bt_symbol,
                                             loss |-> RLt(net_pnl, R(0))])
                        /\ in_position' = rsi_lt(r.rsi, rsi_oversold)
                        \* Dead until the next entry assigns them (194-197).
                        /\ entry_price' = R(0)
                        /\ entry_time' = None
                        /\ position_size' = R(0)
                        /\ highest_price' = R(0)
                   ELSE /\ paused_until' = pu1
                        /\ consecutive_losses' = cl1
                        /\ highest_price' = hp
                        /\ trade' = None
                        /\ UNCHANGED <<balance, trades, in_position,
                                       entry_price, entry_time, position_size>>

\* One iteration of the for loop, lines 176-250, on row r.  r holds the
\* fields of the row that the iteration reads.
bt_iteration(r) ==
    LET t == r.timestamp
        current_price == r.close
        pu1 == IF bt_resumes(t) THEN None ELSE paused_until
        cl1 == IF bt_resumes(t) THEN 0 ELSE consecutive_losses
        hp == IF RGt(current_price, highest_price)
              THEN current_price ELSE highest_price
        ex == check_exit_signal(r, entry_price, hp)
        exit_price == ex[3]
        locals == bt_pnl(entry_price, exit_price, position_size)
        pnl_percent == locals.pnl_percent
        commission == locals.commission
        net_pnl == locals.net_pnl
        cl2 == bt_losses(net_pnl, cl1)
        pu2 == IF cl2 >= max_consecutive_losses
               THEN Some(t + pause_hours) ELSE pu1
    IN  /\ row' = bt_observed(r)
        /\ current_time' = t
        /\ IF bt_is_paused(t)
           THEN /\ trade' = None
                /\ UNCHANGED <<balance, in_position, entry_price, entry_time,
                               position_size, highest_price, consecutive_losses,
                               paused_until, trades>>
           ELSE IF isna(r.rsi)
           THEN /\ paused_until' = pu1
                /\ consecutive_losses' = cl1
                /\ trade' = None
                /\ UNCHANGED <<balance, in_position, entry_price, entry_time,
                               position_size, highest_price, trades>>
           ELSE IF ~in_position
           THEN /\ paused_until' = pu1
                /\ consecutive_losses' = cl1
                /\ IF check_entry_signal(r)
                   THEN /\ entry_price' = current_price
                        /\ entry_time' = Some(t)
                        /\ position_size' =
                               bt_calculate_position_size(balance, current_price)
                        /\ highest_price' = current_price
                        /\ in_position' = TRUE
                   ELSE UNCHANGED <<in_position, entry_price, entry_time,
                                    position_size, highest_price>>
                /\ trade' = None
                /\ UNCHANGED <<balance, trades>>
           ELSE IF ex[1]
                   THEN /\ balance' = bt_rescale(RAdd(balance, net_pnl))
                        /\ consecutive_losses' = cl2
                        /\ paused_until' = pu2
                        /\ trade' = bt_observed([timestamp |-> t,
                                          symbol |-> bt_symbol,
                                          entry_price |-> entry_price,
                                          exit_price |-> exit_price,
                                          quantity |-> position_size,
                                          pnl_usdt |-> round(net_pnl, 2),
                                          pnl_percent |->
                                              round(RMul(pnl_percent, R(100)), 2),
                                          reason |-> ex[2],
                                          holding_hours |-> t - Val(entry_time),
                                          commission_usdt |->
                                              round(commission, 2),
                                          locals |-> locals])
                        /\ trades' = Append(trades,
                                            [timestamp |-> t,
                                             symbol |-> bt_symbol,
                                             loss |-> RLt(net_pnl, R(0))])
                        /\ in_position' = FALSE
                        \* Dead until the next entry assigns them (194-197).
                        /\ entry_price' = R(0)
                        /\ entry_time' = None
                        /\ position_size' = R(0)
                        /\ highest_price' = R(0)
                   ELSE /\ paused_until' = pu1
                        /\ consecutive_losses' = cl1
                        /\ highest_price' = hp
                        /\ trade' = None
                        /\ UNCHANGED <<balance, trades, in_position,
                                       entry_price, entry_time, position_size>>

\* Rows and gaps of the data read so far.
RECURSIVE SumRows(_, _)
SumRows(f, k) == IF k = 0 THEN 0 ELSE f[symbols[k]] + SumRows(f, k - 1)
RowLimit ==
    IF observe THEN MaxObservedRows
    ELSE IF mode = "backtest" THEN MaxBacktestRows ELSE MaxCandles
bt_gaps == (current_time - n_rows[bt_symbol]) \div (pause_hours - 1)

\* The for loop takes the next row of df.  The row's fields are drawn as
\* the iteration reads them: rsi only when the run is not paused (line
\* 188), volume_ratio only in check_entry_signal (line 193).
bt_Candle ==
    /\ Replay /\ mode # "rerun" /\ pc = "loop"
    /\ SumRows(n_rows, Len(symbols)) < RowLimit
    /\ \E gap \in Gaps, close \in Prices :
         LET t == current_time + gap
         IN  /\ gap > 1 => bt_gaps < MaxGaps
             /\ IF bt_is_paused(t)
                THEN bt_iteration([timestamp |-> t, close |-> R(close)])
                ELSE \E rsi \in RsiValues :
                       IF isna(rsi) \/ in_position
                       THEN bt_iteration([timestamp |-> t, close |-> R(close),
                                          rsi |-> rsi])
                       ELSE \E vr \in VolumeRatios :
                              bt_iteration([timestamp |-> t, close |-> R(close),
                                            rsi |-> rsi, volume_ratio |-> vr])
    /\ n_rows' = [n_rows EXCEPT ![bt_symbol] = @ + 1]
    /\ UNCHANGED <<mode, observe, faults, pc, sym, all_trades, df, bot_vars,
                   sizer, closer>>

\* Two calls on one df.  The rows of df are hourly, with every field; the
\* first call reads them as they are drawn, the second reads the same rows
\* in the same order.  The closes are 7% apart: past the levels of take
\* profit and stop loss.
MaxRerunRows == 5
RerunPrices == {100, 107}
RerunRsi == {Some(20), Some(70)}
bt_RerunCandle ==
    /\ mode = "rerun" /\ pc = "loop"
    /\ IF sym = 1
       THEN /\ Len(df) < MaxRerunRows
            /\ \E close \in RerunPrices, rsi \in RerunRsi :
                 LET r == [timestamp |-> current_time + 1, close |-> R(close),
                           rsi |-> rsi, volume_ratio |-> Frac(19, 10)]
                 IN  /\ bt_iteration(r)
                     /\ df' = Append(df, r)
       ELSE /\ df # <<>>
            /\ bt_iteration(Head(df))
            /\ df' = Tail(df)
    /\ n_rows' = [n_rows EXCEPT ![bt_symbol] = @ + 1]
    /\ UNCHANGED <<mode, observe, faults, pc, sym, all_trades, bot_vars,
                   sizer, closer>>

\* The data frame is exhausted (or was empty): the loop ends and
\* run_full_backtest, line 272, extends all_trades.
bt_EndRun ==
    /\ Replay /\ pc = "loop"
    /\ (mode = "rerun" /\ sym > 1) => df = <<>>
    /\ all_trades' = all_trades \o trades
    /\ sym' = sym + 1
    /\ pc' = "start"
    /\ trade' = None
    /\ row' = None
    /\ UNCHANGED <<mode, observe, faults, n_rows, bt_locals, df, bot_vars,
                   sizer, closer>>

\* run_full_backtest lines 274-277.
bt_Finish ==
    /\ mode = "backtest" /\ pc = "start" /\ sym = Len(symbols) + 1
    /\ all_trades' = bt_sort(all_trades)
    /\ pc' = "done"
    /\ UNCHANGED <<mode, observe, faults, n_rows, sym, row, bt_locals, trade,
                   df, bot_vars, sizer, closer>>

bt_InitState(m, obs) ==
    /\ mode = m
    /\ observe = obs
    /\ faults = IF m = "live_faults" THEN MaxFaults ELSE 0
    /\ pc = IF m \in {"live", "live_faults", "live_flat"} THEN "sleep"
            ELSE "start"
    /\ n_rows = [s \in Symbols |-> 0]
    /\ sym = 1
    /\ row = None
    /\ current_time = 0
    /\ balance = R(initial_balance)
    /\ in_position = FALSE
    /\ entry_price = R(0)
    /\ entry_time = None
    /\ position_size = R(0)
    /\ highest_price = R(0)
    /\ consecutive_losses = 0
    /\ paused_until = None
    /\ trades = <<>>
    /\ trade = None
    /\ all_trades = <<>>
    /\ df = <<>>
    /\ open_positions = <<>>
    /\ todo = <<>>
    /\ decision = None

\* The state after construction: no position and no order at the exchange.
bt_InitWith(m, obs) ==
    /\ bt_InitState(m, obs)
    /\ xch_position = [s \in Symbols |-> R(0)]
    /\ xch_orders = {}
    /\ xch_next_id = 1
    /\ closer = None

bt_NextRun == bt_StartRun \/ bt_Candle \/ bt_EndRun
bt_Next == bt_NextRun \/ bt_Finish

\* run_full_backtest over both symbols, rows not recorded: long runs.
SpecBacktest ==
    bt_InitWith("backtest", FALSE) /\ sizer = None /\ [][bt_Next]_vars
\* One call of run_backtest_symbol, rows not recorded: long runs.
SpecRun == bt_InitWith("run", FALSE) /\ sizer = None /\ [][bt_NextRun]_vars
\* One call of run_backtest_symbol, each row recorded in `row` and each
\* trade dict in `trade`: short runs.
SpecRows == bt_InitWith("run", TRUE) /\ sizer = None /\ [][bt_NextRun]_vars

\* One call of run_backtest_symbol on a df that is not sorted by time, each
\* row recorded: short runs.
SpecUnordered ==
    bt_InitWith("unordered", TRUE) /\ sizer = None /\ [][bt_NextRun]_vars

\* run_backtest_symbol called twice on one object, for the same symbol and
\* the same df, each row read recorded in `row` and each trade dict in
\* `trade`.
SpecRerun ==
    /\ bt_InitWith("rerun", TRUE) /\ sizer = None
    /\ [][bt_StartRun \/ bt_RerunCandle \/ bt_EndRun]_vars

\* ----------------------------------------------------- CryptoTradingBot

\* get_account_balance: the free USDT balance fetched, or 0 when the fetch
\* raised (fetched = None).
get_account_balance(fetched) == IF fetched = None THEN R(0) ELSE Val(fetched)

\* min_size = 0.001 if 'BTC' in symbol else 0.01
min_size(s) == IF s = "BTC" THEN Frac(1, 1000) ELSE Frac(1, 100)

\* calculate_position_size with the floor added to the quantity.
bot_position_size_plus_floor(s, bal, entry, stop, risk, lev) ==
    LET risk_amount == RMul(bal, risk)
        stop_distance == RAbs(RSub(entry, stop))
    IN  IF stop_distance[1] = 0 \/ entry[1] = 0 THEN R(0)
        ELSE LET position_size_usdt ==
                     RDiv(risk_amount, RDiv(stop_distance, entry))
                 position_size_base == RDiv(position_size_usdt, entry)
                 leveraged_position == RMul(position_size_base, R(lev))
             IN  RAdd(leveraged_position, min_size(s))

\* calculate_position_size (bot 176-201) on the balance read, with
\* self.risk_per_trade and self.leverage as arguments.  A zero divisor
\* raises ZeroDivisionError (Python floats), caught at line 199: returns 0.
bot_position_size(s, bal, entry, stop, risk, lev) ==
    LET risk_amount == RMul(bal, risk)
        stop_distance == RAbs(RSub(entry, stop))
    IN  IF stop_distance[1] = 0 \/ entry[1] = 0 THEN R(0)
        ELSE LET position_size_usdt ==
                     RDiv(risk_amount, RDiv(stop_distance, entry))
                 position_size_base == RDiv(position_size_usdt, entry)
                 leveraged_position == RMul(position_size_base, R(lev))
             IN  RMax(leveraged_position, min_size(s))

bot_calculate_position_size(s, fetched, entry, stop) ==
    bot_position_size(s, get_account_balance(fetched), entry, stop,
                      risk_per_trade, leverage)

\* self and the exchange as one value, which the methods below take and
\* return: a method called after another sees what the other did.
bot_self ==
    [open_positions |-> open_positions,
     consecutive_losses |-> consecutive_losses,
     paused_until |-> paused_until,
     trades |-> trades,
     trade |-> None,
     xch_position |-> xch_position,
     xch_orders |-> xch_orders,
     xch_next_id |-> xch_next_id]

\* symbol in self.open_positions; self.open_positions[symbol]
has_position(S, s) ==
    \E k \in 1..Len(S.open_positions) : S.open_positions[k].symbol = s
position_index(S, s) ==
    CHOOSE k \in 1..Len(S.open_positions) : S.open_positions[k].symbol = s
position_of(S, s) == S.open_positions[position_index(S, s)]
set_position(S, s, p) ==
    [S EXCEPT !.open_positions[position_index(S, s)] = p]
\* list(self.open_positions.keys())
position_keys(S) ==
    [k \in 1..Len(S.open_positions) |-> S.open_positions[k].symbol]

\* The exchange.  create_order rests a stop or limit order and returns its
\* id; cancel_order removes the order with the id, and raises when there is
\* none.
xch_has(S, id) == \E o \in S.xch_orders : o.id = id
xch_cancel(S, id) == [S EXCEPT !.xch_orders = {o \in @ : o.id # id}]
xch_create(S, s, type, price) ==
    [S EXCEPT !.xch_orders = @ \cup {[id |-> S.xch_next_id, symbol |-> s,
                                      type |-> type, price |-> price]},
              !.xch_next_id = @ + 1]

\* Closes of the candles that run_bot fetches.  Long runs are those of a
\* flat market, where every close of a position is a net loss by the
\* commission.
LivePrices ==
    IF observe THEN Prices
    ELSE IF mode = "live_flat" THEN {100} ELSE {100, 103}

\* What the exchange may answer: "ok", or the call that raises.
OpenOutcomes ==
    IF faults > 0
    THEN {"ok", "leverage_fails", "market_fails", "stop_fails", "tp_fails"}
    ELSE {"ok"}
StopOutcomes ==
    IF faults > 0 THEN {"ok", "cancel_fails", "create_fails"} ELSE {"ok"}
\* Distance of a market order's average fill price from the last close.
MaxSlippage == 1
\* order['average']: not reported, or a price near the last close.
Fills(price) ==
    (IF faults > 0 THEN {None} ELSE {})
        \cup {Some(R(f)) : f \in {q \in LivePrices : Abs(q - price) <= MaxSlippage}}
\* create_market_order(side='sell'): raises, or fills.
SellResults(price) ==
    (IF faults > 0 THEN {[ok |-> FALSE, average |-> None]} ELSE {})
        \cup {[ok |-> TRUE, average |-> f] : f \in Fills(price)}

\* check_entry_conditions with rsi <= rsi_oversold.
bot_entry_signal_at_threshold(r) ==
    LET rsi_condition == \E v \in r.rsi : v <= rsi_oversold
        volume_condition == RGt(r.volume_ratio, volume_multiplier)
    IN  rsi_condition /\ volume_condition

\* check_entry_conditions, lines 216-231, on the snapshot fetched.
bot_entry_signal(r) ==
    LET rsi_condition == rsi_lt(r.rsi, rsi_oversold)
        volume_condition == RGt(r.volume_ratio, volume_multiplier)
    IN  rsi_condition /\ volume_condition

\* open_position that records the position before it sends the orders.
open_position_records_first(S, s, conditions, fetched, outcome, average) ==
    LET current_price == conditions.close
        stop_loss == RMul(current_price, RSub(R(1), sl_percent))
        take_profit == RMul(current_price, RAdd(R(1), tp_percent))
        amount ==
            bot_calculate_position_size(s, fetched, current_price, stop_loss)
        fill == IF average = None THEN current_price ELSE Val(average)
        recorded == [S EXCEPT !.open_positions = Append(@,
                        [symbol |-> s,
                         entry_price |-> fill,
                         quantity |-> amount,
                         stop_loss |-> stop_loss,
                         take_profit |-> take_profit,
                         sl_order_id |-> S.xch_next_id,
                         tp_order_id |-> S.xch_next_id + 1,
                         trailing_active |-> FALSE,
                         highest_price |-> fill])]
        bought == [recorded EXCEPT !.xch_position[s] = RAdd(@, amount)]
        with_sl == xch_create(bought, s, "stop", stop_loss)
    IN  IF RLe(amount, R(0)) THEN S
        ELSE IF outcome \in {"leverage_fails", "market_fails"} THEN recorded
        ELSE IF outcome = "stop_fails" THEN bought
        ELSE IF outcome = "tp_fails" THEN with_sl
        ELSE xch_create(with_sl, s, "limit", take_profit)

\* open_position.  conditions: the snapshot; fetched: the balance read;
\* outcome: which exchange call raises, if any; average: order['average'].
open_position(S, s, conditions, fetched, outcome, average) ==
    LET current_price == conditions.close
        stop_loss == RMul(current_price, RSub(R(1), sl_percent))
        take_profit == RMul(current_price, RAdd(R(1), tp_percent))
        amount ==
            bot_calculate_position_size(s, fetched, current_price, stop_loss)
        bought == [S EXCEPT !.xch_position[s] = RAdd(@, amount)]
        with_sl == xch_create(bought, s, "stop", stop_loss)
        with_tp == xch_create(with_sl, s, "limit", take_profit)
        fill == IF average = None THEN current_price ELSE Val(average)
    IN  IF RLe(amount, R(0)) THEN S
        ELSE IF outcome \in {"leverage_fails", "market_fails"} THEN S
        ELSE IF outcome = "stop_fails" THEN bought
        ELSE IF outcome = "tp_fails" THEN with_sl
        ELSE [with_tp EXCEPT !.open_positions = Append(@,
                 [symbol |-> s,
                  entry_price |-> fill,
                  quantity |-> amount,
                  stop_loss |-> stop_loss,
                  take_profit |-> take_profit,
                  sl_order_id |-> bought.xch_next_id,
                  tp_order_id |-> with_sl.xch_next_id,
                  trailing_active |-> FALSE,
                  highest_price |-> fill])]

\* update_stop_loss.  outcome: which exchange call raises, if any.
update_stop_loss(S, s, new_stop_price, outcome) ==
    LET position == position_of(S, s)
        cancelled == xch_cancel(S, position.sl_order_id)
        created == xch_create(cancelled, s, "stop", new_stop_price)
    IN  IF outcome = "cancel_fails" \/ ~xch_has(S, position.sl_order_id)
        THEN S
        ELSE IF outcome = "create_fails" THEN cancelled
        ELSE set_position(created, s,
                 [position EXCEPT !.sl_order_id = cancelled.xch_next_id,
                                  !.stop_loss = new_stop_price])

\* Line 334 without the test of trailing_active.
bot_activates_again(position, current_price) ==
    RGe(profit_percent_of(current_price, position.entry_price),
        trailing_trigger)

\* Line 334: the trailing stop is activated.
bot_activates(position, current_price) ==
    /\ RGe(profit_percent_of(current_price, position.entry_price),
           trailing_trigger)
    /\ ~position.trailing_active

\* Lines 334-338 without the call of update_stop_loss.
bot_activation_keeps_stop(S, s, current_price, outcome) ==
    LET position == position_of(S, s)
    IN  IF bot_activates(position, current_price)
        THEN set_position(S, s, [position EXCEPT !.trailing_active = TRUE])
        ELSE S

\* Lines 334-338: the activation, when its condition holds.
bot_activation(S, s, current_price, outcome) ==
    LET position == position_of(S, s)
        new_stop == RMul(position.entry_price, RAdd(R(1), trailing_distance))
        updated == update_stop_loss(S, s, new_stop, outcome)
    IN  IF bot_activates(position, current_price)
        THEN set_position(updated, s, [position_of(updated, s) EXCEPT
                                           !.trailing_active = TRUE])
        ELSE S

\* Lines 341-348: a new high moves the stop of an active trailing.
bot_ratchets(position, current_price) ==
    /\ RGt(current_price, position.highest_price)
    /\ position.trailing_active
    /\ RGt(RMul(current_price, RSub(R(1), trailing_distance)),
           position.stop_loss)

\* Lines 341-353 with highest_price set to every price read.
bot_new_high_every_price(S, s, current_price, outcome) ==
    set_position(S, s, [position_of(S, s) EXCEPT
                            !.highest_price = current_price])

\* Lines 341-353.
bot_new_high(S, s, current_price, outcome) ==
    LET position == position_of(S, s)
        new_stop == RMul(current_price, RSub(R(1), trailing_distance))
        raised == set_position(S, s, [position EXCEPT
                                          !.highest_price = current_price])
        updated == update_stop_loss(raised, s, new_stop, outcome)
    IN  IF bot_ratchets(position, current_price)
        THEN set_position(updated, s, [position_of(updated, s) EXCEPT
                                           !.stop_loss = new_stop])
        ELSE IF RGt(current_price, position.highest_price) THEN raised
        ELSE S

\* check_exit_conditions.  snapshot: rsi and close of the last candle
\* fetched, None when no data came; out1, out2: the outcomes of the calls
\* of update_stop_loss.
check_exit_conditions(S, s, snapshot, out1, out2) ==
    IF ~has_position(S, s) \/ snapshot = None
    THEN [self |-> S, should_exit |-> FALSE, reason |-> ""]
    ELSE LET current_rsi == Val(snapshot).rsi
             current_price == Val(snapshot).close
         IN  IF rsi_gt(current_rsi, rsi_overbought)
             THEN [self |-> S, should_exit |-> TRUE, reason |-> "RSI_EXIT"]
             ELSE [self |-> bot_new_high(
                                bot_activation(S, s, current_price, out1),
                                s, current_price, out2),
                   should_exit |-> FALSE, reason |-> ""]

\* What the exchange may answer to the calls of close_position: whether
\* each cancel_order goes through, and the result of the market order.
CloseAnswers(price) ==
    [cancel_sl : {TRUE} \cup {faults = 0}, cancel_tp : {TRUE} \cup {faults = 0},
     sell : SellResults(price)]

\* close_position that drops every position when it starts a pause.
close_position_clears_on_pause(S, s, reason, now, answer) ==
    LET position == position_of(S, s)
        exit_price == Val(answer.sell.average)
        net_pnl == RSub(RMul(RSub(exit_price, position.entry_price),
                             position.quantity),
                        RMul(RMul(RAdd(position.entry_price, exit_price),
                                  position.quantity), Frac(4, 10000)))
        losses == IF RLt(net_pnl, R(0)) THEN S.consecutive_losses + 1 ELSE 0
        sold == [S EXCEPT !.xch_position[s] = RSub(@, position.quantity)]
    IN  IF ~has_position(S, s) \/ ~answer.sell.ok
           \/ answer.sell.average = None
        THEN S
        ELSE [sold EXCEPT
                !.trades = Append(@, bt_observed([symbol |-> s,
                                                  reason |-> reason])),
                !.consecutive_losses = losses,
                !.paused_until = IF losses >= max_consecutive_losses
                                 THEN Some(now + pause_hours * 60) ELSE @,
                !.open_positions =
                    IF losses >= max_consecutive_losses THEN <<>>
                    ELSE SelectSeq(@, LAMBDA q : q.symbol # s)]

\* close_position that deletes the position before it sends the order.
close_position_deletes_first(S, s, reason, now, answer) ==
    LET position == position_of(S, s)
        exit_price == Val(answer.sell.average)
        net_pnl == RSub(RMul(RSub(exit_price, position.entry_price),
                             position.quantity),
                        RMul(RMul(RAdd(position.entry_price, exit_price),
                                  position.quantity), Frac(4, 10000)))
        losses == IF RLt(net_pnl, R(0)) THEN S.consecutive_losses + 1 ELSE 0
        deleted == [S EXCEPT !.open_positions =
                                 SelectSeq(@, LAMBDA q : q.symbol # s)]
        sold == [deleted EXCEPT !.xch_position[s] =
                                    RSub(@, position.quantity)]
    IN  IF ~has_position(S, s) THEN S
        ELSE IF ~answer.sell.ok THEN deleted
        ELSE IF answer.sell.average = None THEN sold
        ELSE [sold EXCEPT
                !.trades = Append(@, bt_observed([symbol |-> s,
                                                  reason |-> reason])),
                !.consecutive_losses = losses,
                !.paused_until = IF losses >= max_consecutive_losses
                                 THEN Some(now + pause_hours * 60) ELSE @]

\* close_position with the net PnL rounded as it is logged.
bot_pnl_rounded(entry, exit, quantity) ==
    LET pnl_usdt == RMul(RSub(exit, entry), quantity)
        pnl_percent == RDiv(RSub(exit, entry), entry)
        commission == RMul(RMul(RAdd(entry, exit), quantity),
                           Frac(4, 10000))
    IN  [pnl_percent |-> pnl_percent, pnl_usdt |-> pnl_usdt,
         commission |-> commission,
         net_pnl |-> round(RSub(pnl_usdt, commission), 2)]

\* Lines 451-452 with a pause after every loss.
bot_pause_on_any_loss(losses, now, paused) ==
    IF losses >= 1 THEN Some(now + pause_hours * 60) ELSE paused

\* Lines 451-452: the pause check of a close at time now (in minutes).
bot_pause(losses, now, paused) ==
    IF losses >= max_consecutive_losses
    THEN Some(now + pause_hours * 60) ELSE paused

\* close_position, lines 413-422: the locals of a close.
bot_pnl(entry, exit, quantity) ==
    LET pnl_usdt == RMul(RSub(exit, entry), quantity)
        pnl_percent == RDiv(RSub(exit, entry), entry)
        commission == RMul(RMul(RAdd(entry, exit), quantity),
                           Frac(4, 10000))
    IN  [pnl_percent |-> pnl_percent, pnl_usdt |-> pnl_usdt,
         commission |-> commission, net_pnl |-> RSub(pnl_usdt, commission)]

\* close_position at time now.  A failed cancel_order is passed over; a
\* failed market order, or a fill without average price (the arithmetic
\* of line 416 raises on None), ends the method at line 461.
close_position(S, s, reason, now, answer) ==
    IF ~has_position(S, s) THEN S
    ELSE LET position == position_of(S, s)
             S1 == IF answer.cancel_sl
                   THEN xch_cancel(S, position.sl_order_id) ELSE S
             S2 == IF answer.cancel_tp
                   THEN xch_cancel(S1, position.tp_order_id) ELSE S1
             sold == [S2 EXCEPT !.xch_position[s] =
                                    RSub(@, position.quantity)]
             exit_price == Val(answer.sell.average)
             entry == position.entry_price
             quantity == position.quantity
             locals == bot_pnl(entry, exit_price, quantity)
             pnl_percent == locals.pnl_percent
             commission == locals.commission
             net_pnl == locals.net_pnl
             losses == IF RLt(net_pnl, R(0))
                       THEN S.consecutive_losses + 1 ELSE 0
         IN  IF ~answer.sell.ok THEN S2
             ELSE IF answer.sell.average = None THEN sold
             ELSE [sold EXCEPT
                     !.trade = Some([symbol |-> s,
                                     entry_price |-> entry,
                                     exit_price |-> exit_price,
                                     quantity |-> quantity,
                                     pnl_usdt |-> round(net_pnl, 2),
                                     pnl_percent |->
                                         round(RMul(pnl_percent, R(100)), 2),
                                     reason |-> reason,
                                     commission_usdt |-> round(commission, 2),
                                     locals |-> locals]),
                     !.trades = Append(@, bt_observed([symbol |-> s,
                                                       reason |-> reason])),
                     !.consecutive_losses = losses,
                     !.paused_until = bot_pause(losses, now, @),
                     !.open_positions = SelectSeq(@, LAMBDA q : q.symbol # s)]

\* check_funding_rate.  high: the funding rate read is above 0.01 and the
\* random draw is below 0.7.
check_funding_rate(S, s, high, now, answer) ==
    IF has_position(S, s) /\ high
    THEN close_position(S, s, "HIGH_FUNDING_COST", now, answer)
    ELSE S

\* is_paused that never ends a pause.
is_paused_keeps_pause(S, now) ==
    [self |-> S, paused |-> S.paused_until # None]

\* is_paused that says so in the call that ends the pause.
is_paused_reports_then_resumes(S, now) ==
    IF \E p \in S.paused_until : now < p
    THEN [self |-> S, paused |-> TRUE]
    ELSE [self |-> [S EXCEPT !.paused_until = None,
                             !.consecutive_losses =
                                 IF S.paused_until # None THEN 0 ELSE @],
          paused |-> S.paused_until # None]

\* is_paused that ends a pause whenever it is asked.
is_paused_resumes_early(S, now) ==
    IF S.paused_until # None
    THEN [self |-> [S EXCEPT !.paused_until = None,
                             !.consecutive_losses = 0],
          paused |-> FALSE]
    ELSE [self |-> S, paused |-> FALSE]

\* is_paused at time now.
is_paused(S, now) ==
    IF \E p \in S.paused_until : now < p
    THEN [self |-> S, paused |-> TRUE]
    ELSE IF \E p \in S.paused_until : now >= p
    THEN [self |-> [S EXCEPT !.paused_until = None,
                             !.consecutive_losses = 0],
          paused |-> FALSE]
    ELSE [self |-> S, paused |-> FALSE]

\* analyze_and_trade that returns only when the bot is paused.
bot_skips_if_paused(checked, s) == checked.paused

\* Lines 515-520: analyze_and_trade returns when the bot is paused or the
\* symbol has a position.  checked: what is_paused returned.
bot_skips(checked, s) == checked.paused \/ has_position(checked.self, s)

\* analyze_and_trade at time now.  snapshot: rsi, volume_ratio and close of
\* the last candle fetched, None when no data came.
analyze_and_trade(S, s, now, snapshot, fetched, outcome, average) ==
    LET checked == is_paused(S, now)
    IN  IF bot_skips(checked, s) \/ snapshot = None
        THEN checked.self
        ELSE IF bot_entry_signal(Val(snapshot))
        THEN open_position(checked.self, s, Val(snapshot), fetched, outcome,
                           average)
        ELSE checked.self

\* ---------------------------------------------------------- run_bot

\* Hours of a day, and days, within which the loop is followed; hours when
\* the snapshots read are recorded in the state; hours when calls of the
\* exchange fail; hours when the market has one price.
MaxLiveHours == 1
MaxLiveDays == 1
MaxObservedHours == 1
MaxFaultHours == 0
MaxFlatHours == 2
LiveHours ==
    IF mode = "live_faults" THEN MaxFaultHours
    ELSE IF mode = "live_flat" THEN MaxFlatHours
    ELSE IF observe THEN MaxObservedHours ELSE MaxLiveHours
LiveDays == IF observe THEN 0 ELSE MaxLiveDays
\* The clock, in minutes.  An iteration ends with time.sleep(60): the next
\* one starts in a later minute.  Minutes of the hour at which iterations
\* start and hours from one iteration to the next, among those followed.
Minutes == {0, 5, 10}
HourSteps == {0, 1, pause_hours}
\* fetch_balance: raises (None), or the free balance.
LiveBalances ==
    (IF faults > 0 THEN {None} ELSE {}) \cup {Some(R(initial_balance))}
\* The last candle fetched by check_entry_conditions, None when no data
\* came (empty frame, or an exception).
EntrySnapshots ==
    (IF faults > 0 THEN {None} ELSE {})
        \cup {Some([rsi |-> v, volume_ratio |-> vr, close |-> R(c)]) :
                     v \in RsiValues, vr \in VolumeRatios, c \in LivePrices}
ExitSnapshots(c) ==
    (IF faults > 0 THEN {None} ELSE {})
        \cup {Some([rsi |-> v, close |-> R(c)]) : v \in RsiValues}
\* No exchange call is made: nothing to answer.
NoAnswer ==
    [cancel_sl |-> TRUE, cancel_tp |-> TRUE,
     sell |-> [ok |-> FALSE, average |-> None]]
\* The failures among the answers drawn in a step are taken from `faults`.
fault(failed) == IF failed THEN 1 ELSE 0
answer_faults(asked, a) ==
    IF ~asked THEN 0
    ELSE fault(~a.cancel_sl) + fault(~a.cancel_tp) + fault(~a.sell.ok)
         + fault(a.sell.ok /\ a.sell.average = None)
bot_faults(n) == n <= faults /\ faults' = faults - n

\* self.symbols: a bot whose snapshots are recorded trades one symbol.
bot_symbols == IF observe THEN <<symbols[1]>> ELSE symbols

Live == mode \in {"live", "live_faults", "live_flat"}

\* What run_bot leaves alone.
bot_frame == <<mode, observe, n_rows, sym, balance, in_position, entry_price,
               entry_time, position_size, highest_price, all_trades, df,
               sizer, closer>>

\* The step's effect on self and the exchange.
bot_commit(S) ==
    /\ open_positions' = S.open_positions
    /\ consecutive_losses' = S.consecutive_losses
    /\ paused_until' = S.paused_until
    /\ trades' = S.trades
    /\ trade' = IF observe THEN S.trade ELSE None
    /\ xch_position' = S.xch_position
    /\ xch_orders' = S.xch_orders
    /\ xch_next_id' = S.xch_next_id

\* The for loop goes to its next symbol, or ends.
bot_next_symbol ==
    /\ todo' = Tail(todo)
    /\ pc' = IF Tail(todo) = <<>> THEN "sleep" ELSE pc

\* run_bot, lines 542-562: an iteration of the while loop starts at time
\* now and dispatches on the minute.
bot_Iterate ==
    /\ Live /\ pc = "sleep"
    /\ \E dh \in HourSteps, minute \in Minutes :
         LET hour == current_time \div 60 + dh
             now == hour * 60 + minute
             keys == position_keys(bot_self)
             checked == is_paused(bot_self, now)
         IN  /\ now > current_time
             /\ hour % 24 <= LiveHours /\ hour \div 24 <= LiveDays
             /\ current_time' = now
             /\ IF minute = 5
                THEN /\ pc' = "analyze" /\ todo' = bot_symbols
                     /\ decision' = None
                     /\ UNCHANGED <<consecutive_losses, paused_until>>
                ELSE IF minute % 10 = 0
                THEN /\ pc' = IF keys = <<>> THEN "sleep" ELSE "manage"
                     /\ todo' = keys
                     /\ decision' = None
                     /\ UNCHANGED <<consecutive_losses, paused_until>>
                ELSE IF minute = 0
                THEN /\ pc' = "sleep" /\ todo' = <<>>
                     /\ decision' = bt_observed(
                            [status |-> IF checked.paused
                                        THEN "PAUSED" ELSE "ACTIVE"])
                     /\ consecutive_losses' = checked.self.consecutive_losses
                     /\ paused_until' = checked.self.paused_until
                ELSE /\ pc' = "sleep" /\ todo' = <<>>
                     /\ decision' = None
                     /\ UNCHANGED <<consecutive_losses, paused_until>>
    /\ row' = None /\ trade' = None
    /\ UNCHANGED <<bot_frame, faults, open_positions, trades, xch_position,
                   xch_orders, xch_next_id>>

\* run_bot, lines 547-549: analyze_and_trade on the next symbol.  The
\* snapshot and the exchange's answers are drawn where the code asks for
\* them, and recorded in `row` when observed: the candle, the balance read
\* by the sizer, the call that raised and order['average'].
bot_AnalyzeAndTrade ==
    /\ Live /\ pc = "analyze"
    /\ LET s == Head(todo)
           now == current_time
           checked == is_paused(bot_self, now)
       IN  IF bot_skips(checked, s)
           THEN /\ bot_commit(checked.self)
                /\ row' = None /\ decision' = None
                /\ bot_faults(0)
           ELSE \E snapshot \in EntrySnapshots :
                  /\ IF snapshot = None
                     THEN /\ bot_commit(checked.self)
                          /\ row' = None
                          /\ decision' = bt_observed([should_enter |-> FALSE])
                          /\ bot_faults(1)
                     ELSE IF ~bot_entry_signal(Val(snapshot))
                     THEN /\ bot_commit(checked.self)
                          /\ row' = IF observe THEN snapshot ELSE None
                          /\ decision' = bt_observed([should_enter |-> FALSE])
                          /\ bot_faults(0)
                     ELSE /\ decision' = bt_observed([should_enter |-> TRUE])
                          /\ \E fetched \in LiveBalances,
                                outcome \in OpenOutcomes :
                               \E average \in
                                     IF outcome \in {"leverage_fails",
                                                     "market_fails"}
                                     THEN {None}
                                     ELSE Fills(Val(snapshot).close[1]) :
                                 /\ bot_faults(fault(fetched = None)
                                               + fault(outcome # "ok")
                                               + fault(outcome \in {"ok",
                                                     "stop_fails", "tp_fails"}
                                                       /\ average = None))
                                 /\ bot_commit(analyze_and_trade(
                                        bot_self, s, now, snapshot, fetched,
                                        outcome, average))
                                 /\ row' = bt_observed(
                                        [rsi |-> Val(snapshot).rsi,
                                         volume_ratio |->
                                             Val(snapshot).volume_ratio,
                                         close |-> Val(snapshot).close,
                                         balance |->
                                             get_account_balance(fetched),
                                         outcome |-> outcome,
                                         average |-> average])
    /\ bot_next_symbol
    /\ UNCHANGED <<bot_frame, current_time>>

\* manage_open_positions, lines 487-495, on the next key of the list taken
\* at line 487: check_exit_conditions, close_position if it says so, and
\* check_funding_rate in the hours divisible by 8.  c: the market price,
\* close of the last candle and centre of the fills.
bot_ManagePosition ==
    /\ Live /\ pc = "manage"
    /\ LET s == Head(todo)
           now == current_time
           S == bot_self
           funding_hour == ((now \div 60) % 24) % 8 = 0
       IN  \E c \in LivePrices :
           \E snapshot \in IF has_position(S, s)
                           THEN ExitSnapshots(c) ELSE {None} :
             LET price == R(c)
                 looks == /\ has_position(S, s) /\ snapshot # None
                          /\ ~rsi_gt(Val(snapshot).rsi, rsi_overbought)
             IN  \E out1 \in IF looks /\ bot_activates(position_of(S, s), price)
                             THEN StopOutcomes ELSE {"ok"} :
                 LET S1 == IF looks THEN bot_activation(S, s, price, out1)
                           ELSE S
                 IN  \E out2 \in IF looks /\ bot_ratchets(position_of(S1, s),
                                                         price)
                                 THEN StopOutcomes ELSE {"ok"} :
                     LET checked == check_exit_conditions(S, s, snapshot,
                                                          out1, out2)
                     IN  \E a1 \in IF checked.should_exit
                                   THEN CloseAnswers(c) ELSE {NoAnswer} :
                         LET S2 == IF checked.should_exit
                                   THEN close_position(checked.self, s,
                                            checked.reason, now, a1)
                                   ELSE checked.self
                         IN  \E high \in IF funding_hour /\ has_position(S2, s)
                                         THEN BOOLEAN ELSE {FALSE} :
                             \E a2 \in IF high THEN CloseAnswers(c)
                                       ELSE {NoAnswer} :
                               /\ bot_faults(fault(has_position(S, s)
                                                       /\ snapshot = None)
                                               + fault(out1 # "ok")
                                               + fault(out2 # "ok")
                                               + answer_faults(
                                                     checked.should_exit, a1)
                                               + answer_faults(high, a2))
                               /\ bot_commit(check_funding_rate(S2, s, high,
                                                                now, a2))
                               /\ row' = IF observe THEN snapshot ELSE None
                               /\ decision' = bt_observed(
                                      [should_exit |-> checked.should_exit,
                                       reason |-> checked.reason])
    /\ bot_next_symbol
    /\ UNCHANGED <<bot_frame, current_time>>

bot_Next == bot_Iterate \/ bot_AnalyzeAndTrade \/ bot_ManagePosition

\* run_bot, snapshots not recorded: long runs.
SpecLive == bt_InitWith("live", FALSE) /\ sizer = None /\ [][bot_Next]_vars
\* run_bot or one call of run_backtest_symbol, each snapshot or row read
\* recorded in `row`, each decision in `decision` and each trade dict in
\* `trade`: short runs.
SpecObserved ==
    /\ bt_InitWith("run", TRUE) \/ bt_InitWith("live", TRUE)
    /\ sizer = None
    /\ [][bt_NextRun \/ bot_Next]_vars
\* The same, with calls of the exchange that fail.
SpecFaults ==
    /\ bt_InitWith("run", TRUE) \/ bt_InitWith("live_faults", TRUE)
    /\ sizer = None
    /\ [][bt_NextRun \/ bot_Next]_vars

\* ------------------------------------------ run_bot and the replay, long

\* run_bot or one call of run_backtest_symbol, nothing recorded: long runs
\* of either.
SpecLong ==
    /\ bt_InitWith("run", FALSE) \/ bt_InitWith("live", FALSE)
    /\ sizer = None
    /\ [][bt_NextRun \/ bot_Next]_vars

\* ------------------------------------ run_bot and the replay, scheduled

\* run_bot in a market of one price, or one call of run_backtest_symbol.
\* The while loop of run_bot and the for loop of run_backtest_symbol take
\* their next step whenever there is one: nothing in either waits for
\* anything but time.sleep.
SpecPause ==
    /\ bt_InitWith("run", FALSE) \/ bt_InitWith("live_flat", FALSE)
    /\ sizer = None
    /\ [][bt_NextRun \/ bot_Next]_vars
    /\ WF_vars(bt_StartRun) /\ WF_vars(bt_Candle) /\ WF_vars(bt_EndRun)
    /\ WF_vars(bot_Iterate) /\ WF_vars(bot_AnalyzeAndTrade)
    \* WF_vars(bot_ManagePosition), which is enabled exactly when the for
    \* loop of manage_open_positions has a key left.
    /\ \/ []<>~(Live /\ pc = "manage")
       \/ []<><<bot_ManagePosition>>_vars

\* ------------------------------------------------- emergency_close.py

\* sys.argv[1].lower(), and what the operator types at the prompt of
\* input().
EmCommands == {"status", "close", "force"}
EmInputs == {"YES", "yes", "Y", ""}
\* What the exchange holds when the script starts: per symbol, no position
\* or a long one, and any of a stop and a limit order.
EmQuantities == {R(0), R(10)}
EmOrders ==
    {[id |-> 2 * k - 1, symbol |-> symbols[k], type |-> "stop",
      price |-> R(97)] : k \in 1..Len(symbols)}
        \cup {[id |-> 2 * k, symbol |-> symbols[k], type |-> "limit",
               price |-> R(106)] : k \in 1..Len(symbols)}

\* EmergencyCloser.__init__ and the start of main: testnet is the TESTNET
\* variable of the environment.
em_Init ==
    /\ bt_InitState("emergency", FALSE)
    /\ xch_position \in [Symbols -> EmQuantities]
    /\ xch_orders \in SUBSET EmOrders
    /\ xch_next_id = 2 * Len(symbols) + 1
    /\ sizer = None
    /\ \E c \in EmCommands, t \in BOOLEAN, i \in EmInputs :
         closer = Some([command |-> c, env_testnet |-> t, testnet |-> t,
                        input |-> i, asked |-> FALSE, pc |-> "main",
                        positions |-> <<>>, symbols |-> <<>>,
                        closed |-> <<>>])

\* What a step of the script leaves alone.
em_frame == <<mode, observe, faults, bt_vars, open_positions, todo, decision,
              xch_next_id, sizer>>

\* Line 153 that takes the answer in either case.
em_confirmed_any_case(input) == input \in {"YES", "yes"}

\* Line 153: confirm != 'YES'.
em_confirmed(input) == input = "YES"

\* main, lines 277-293: dispatch on the command.  `force` sets
\* closer.testnet before it calls emergency_close_all.
em_Main ==
    /\ mode = "emergency"
    /\ \E c \in closer :
         /\ c.pc = "main"
         /\ closer' = Some(
                IF c.command = "close" THEN [c EXCEPT !.pc = "confirm"]
                ELSE IF c.command = "force"
                THEN [c EXCEPT !.testnet = TRUE, !.pc = "confirm"]
                ELSE [c EXCEPT !.pc = "done"])
    /\ UNCHANGED <<em_frame, xch_position, xch_orders>>

\* emergency_close_all, lines 150-154: the confirmation.
em_Confirm ==
    /\ mode = "emergency"
    /\ \E c \in closer :
         /\ c.pc = "confirm"
         /\ closer' = Some(
                IF ~c.testnet
                THEN [c EXCEPT !.asked = TRUE,
                               !.pc = IF em_confirmed(c.input)
                                      THEN "fetch" ELSE "return"]
                ELSE [c EXCEPT !.pc = "fetch"])
    /\ UNCHANGED <<em_frame, xch_position, xch_orders>>

\* Lines 157-161: get_open_positions, the positions with contracts > 0, or
\* none when fetch_positions raised.
em_Fetch ==
    /\ mode = "emergency"
    /\ \E c \in closer, raised \in BOOLEAN :
         LET positions ==
                 IF raised THEN <<>>
                 ELSE SelectSeq(symbols,
                                LAMBDA s : RGt(xch_position[s], R(0)))
         IN  /\ c.pc = "fetch"
             /\ closer' = Some(
                    IF positions = <<>> THEN [c EXCEPT !.pc = "return"]
                    ELSE [c EXCEPT !.positions = positions,
                                   !.symbols = symbols, !.pc = "cancel"])
    /\ UNCHANGED <<em_frame, xch_position, xch_orders>>

\* Lines 168-169: cancel_all_orders on the next symbol.  kept: the orders
\* whose cancel_order raised, or all of them when fetch_open_orders raised.
em_CancelAllOrders ==
    /\ mode = "emergency"
    /\ \E c \in closer :
         LET s == Head(c.symbols)
             orders == {o \in xch_orders : o.symbol = s}
         IN  /\ c.pc = "cancel"
             /\ \E kept \in SUBSET orders :
                  xch_orders' = (xch_orders \ orders) \cup kept
             /\ closer' = Some([c EXCEPT
                    !.symbols = Tail(@),
                    !.pc = IF Tail(c.symbols) = <<>> THEN "close" ELSE @])
    /\ UNCHANGED <<em_frame, xch_position>>

\* Lines 172-175: close_position on the next position fetched.  ok: the
\* market order went through.
em_ClosePosition ==
    /\ mode = "emergency"
    /\ \E c \in closer, ok \in BOOLEAN :
         LET s == Head(c.positions)
         IN  /\ c.pc = "close"
             /\ xch_position' = IF ok THEN [xch_position EXCEPT ![s] = R(0)]
                                ELSE xch_position
             /\ closer' = Some([c EXCEPT
                    !.positions = Tail(@),
                    !.closed = IF ok THEN Append(@, s) ELSE @,
                    !.pc = IF Tail(c.positions) = <<>> THEN "return" ELSE @])
    /\ UNCHANGED <<em_frame, xch_orders>>

\* emergency_close_all returns; main, line 295, restores closer.testnet
\* after `force`.
em_Return ==
    /\ mode = "emergency"
    /\ \E c \in closer :
         /\ c.pc = "return"
         /\ closer' = Some([c EXCEPT !.testnet = c.env_testnet,
                                     !.pc = "done"])
    /\ UNCHANGED <<em_frame, xch_position, xch_orders>>

em_Next ==
    \/ em_Main \/ em_Confirm \/ em_Fetch \/ em_CancelAllOrders
    \/ em_ClosePosition \/ em_Return

\* One run of emergency_close.py.
SpecEmergency == em_Init /\ [][em_Next]_vars

\* ------------------------------------------- the two sizers, one call

\* Arguments of one call: the balance read (None: the read failed), entry
\* and stop price, risk fraction, leverage, and a factor k by which the
\* claims scale the risk fraction and the leverage.
SizerBalances == {None, Some(R(1)), Some(R(initial_balance))}
SizerEntries == {100, 1000}
SizerStops == {97, 100, 103}
SizerRisks == {risk_per_trade, Frac(2, 100)}
SizerLeverages == {1, leverage}
SizerFactors == {2, 3}

sz_Init ==
    /\ bt_InitWith("sizer", FALSE)
    /\ \E s \in Symbols, b \in SizerBalances, e \in SizerEntries,
          st \in SizerStops, r \in SizerRisks, l \in SizerLeverages,
          k \in SizerFactors :
         sizer = Some([symbol |-> s, fetched |-> b, entry_price |-> R(e),
                       stop_price |-> R(st), risk |-> r, lev |-> l, k |-> k,
                       called |-> FALSE, replay |-> R(0), live |-> R(0)])

\* Both sizers are called on the arguments.  The replay sizer takes no stop
\* price: its stop distance is entry_price * sl_percent (line 153).
sz_Call ==
    /\ mode = "sizer"
    /\ \E a \in sizer :
         /\ ~a.called
         /\ sizer' = Some([a EXCEPT
                !.called = TRUE,
                !.replay = bt_position_size(get_account_balance(a.fetched),
                                            a.entry_price, a.risk, a.lev),
                !.live = bot_position_size(a.symbol,
                                           get_account_balance(a.fetched),
                                           a.entry_price, a.stop_price,
                                           a.risk, a.lev)])
    /\ UNCHANGED <<mode, observe, faults, bt_vars, bot_vars, closer>>

SpecSizer == sz_Init /\ [][sz_Call]_vars

\* ---------------------------------------------------------------- claims

\* The process-wide breaker of the specification, run over a ledger in
\* time order: the pause deadline in force after the closes before time te.
RECURSIVE RefPausedUntil(_, _, _, _, _)
RefPausedUntil(ledger, k, te, c, pu) ==
    IF k > Len(ledger) \/ ledger[k].timestamp >= te THEN pu
    ELSE LET tr == ledger[k]
             resumed == \E p \in pu : tr.timestamp >= p
             c0 == IF resumed THEN 0 ELSE c
             pu0 == IF resumed THEN None ELSE pu
             c1 == IF tr.loss THEN c0 + 1 ELSE 0
             pu1 == IF c1 >= max_consecutive_losses
                    THEN Some(tr.timestamp + pause_hours) ELSE pu0
         IN  RefPausedUntil(ledger, k + 1, te, c1, pu1)
PausedProcessWide(ledger, te) ==
    \E p \in RefPausedUntil(bt_sort(ledger), 1, te, 0, None) : te < p

\* C1 (replay): after max_consecutive_losses consecutive net-losing closes,
\* counted in one process-wide counter over the closes of all symbols in
\* time order, no position is opened on any symbol before paused_until:
\* the entry time of the open position never lies in a process-wide pause.
C1_NoEntryWhilePaused ==
    (Replay /\ pc = "loop" /\ in_position)
        => ~PausedProcessWide(all_trades \o trades, Val(entry_time))

\* What the priority order RSI_EXIT, TP, SL, TRAILING_SL gives for a row
\* with oscillator rsi and close price, on a position entered at entry.
C2_above_overbought(r) == \E v \in r.rsi : v > rsi_overbought
C2_profit(r, entry) == RDiv(RSub(r.close, entry), entry)

\* C2: a close is attributed to the first exit condition, in the order
\* RSI_EXIT, TP, SL, TRAILING_SL, that the closing row satisfies; a row with
\* the oscillator above the overbought threshold and the profit at or above
\* take_profit_pct closes with reason RSI_EXIT.
C2_ExitPriority ==
    \A tr \in trade : \A r \in row :
        LET pp == C2_profit(r, tr.entry_price)
        IN  IF C2_above_overbought(r) THEN tr.reason = "RSI_EXIT"
            ELSE IF RGe(pp, tp_percent) THEN tr.reason = "TP"
            ELSE IF RLe(pp, RNeg(sl_percent)) THEN tr.reason = "SL"
            ELSE tr.reason = "TRAILING_SL" /\ RGe(pp, trailing_trigger)

\* A close on a row that satisfies both the RSI and the take-profit
\* condition.
C2_Witness ==
    \E tr \in trade : \E r \in row :
        /\ C2_above_overbought(r)
        /\ RGe(C2_profit(r, tr.entry_price), tp_percent)
        /\ tr.reason = "RSI_EXIT"

\* The arguments of a sizer call are valid: balance > 0, entry_price > 0,
\* stop_price # entry_price, 0 < risk_fraction < 1, leverage >= 1.
C5_valid(a) ==
    /\ a.fetched # None /\ RGt(Val(a.fetched), R(0))
    /\ RGt(a.entry_price, R(0)) /\ a.stop_price # a.entry_price
    /\ RGt(a.risk, R(0)) /\ RLt(a.risk, R(1)) /\ a.lev >= 1
C5_balance(a) == Val(a.fetched)
C5_distance(a) == RAbs(RSub(a.entry_price, a.stop_price))
\* The arguments of the example.
C5_example(a) ==
    /\ a.fetched = Some(R(1000)) /\ a.risk = Frac(1, 100) /\ a.lev = 3
    /\ a.entry_price = R(100) /\ a.stop_price = R(97)
\* balance * risk_fraction / (distance / entry_price) * leverage
C5_stated(a, distance) ==
    RMul(RDiv(RMul(C5_balance(a), a.risk), RDiv(distance, a.entry_price)),
         R(a.lev))
\* balance * risk_fraction * leverage / distance: the stated quantity
\* divided by entry_price
C5_base_units(a, distance) ==
    RDiv(RMul(RMul(C5_balance(a), a.risk), R(a.lev)), distance)

\* C5 as stated: on valid arguments both sizers return
\* balance * risk_fraction / (|entry_price - stop_price| / entry_price)
\* * leverage (the replay sizer with its stop at sl_percent below the
\* entry), which is 1000 on the arguments of the example.
C5_StatedQuantity ==
    \A a \in sizer : (a.called /\ C5_valid(a)) =>
        /\ a.live = C5_stated(a, C5_distance(a))
        /\ a.replay = C5_stated(a, RMul(a.entry_price, sl_percent))
        /\ C5_example(a) => a.live = R(1000)

\* C5, amended: on valid arguments the sizers return the quantity in base
\* units, balance * risk_fraction * leverage / stop distance, the live
\* sizer not less than the minimum lot of the symbol; on the arguments of
\* the example both return 10.
C5_BaseUnitQuantity ==
    \A a \in sizer : (a.called /\ C5_valid(a)) =>
        /\ a.live = RMax(C5_base_units(a, C5_distance(a)), min_size(a.symbol))
        /\ a.replay = C5_base_units(a, RMul(a.entry_price, sl_percent))
        /\ C5_example(a) => a.live = R(10) /\ a.replay = R(10)

\* The sizers were called on the arguments of the example.
C5_Witness ==
    \E a \in sizer : a.called /\ C5_example(a) /\ a.live = R(10)

\* The quantities the sizers return when risk_fraction or leverage is
\* multiplied by the factor k of the call.
C6_replay(a, risk, lev) ==
    bt_position_size(C5_balance(a), a.entry_price, risk, lev)
C6_live(a, risk, lev) ==
    bot_position_size(a.symbol, C5_balance(a), a.entry_price, a.stop_price,
                      risk, lev)
C6_linear_replay(a) ==
    /\ C6_replay(a, a.risk, a.k * a.lev) = RMul(R(a.k), a.replay)
    /\ C6_replay(a, RMul(R(a.k), a.risk), a.lev) = RMul(R(a.k), a.replay)
C6_linear_live(a) ==
    /\ C6_live(a, a.risk, a.k * a.lev) = RMul(R(a.k), a.live)
    /\ C6_live(a, RMul(R(a.k), a.risk), a.lev) = RMul(R(a.k), a.live)

\* C6 as stated: on valid arguments the quantity returned is > 0 and linear
\* in leverage and in risk_fraction, for both sizers.
C6_PositiveAndLinear ==
    \A a \in sizer : (a.called /\ C5_valid(a)) =>
        /\ RGt(a.replay, R(0)) /\ RGt(a.live, R(0))
        /\ C6_linear_replay(a) /\ C6_linear_live(a)

\* C6, amended: on valid arguments the quantity returned is > 0; the replay
\* sizer is linear in leverage and in risk_fraction; the live sizer is
\* linear where its quantity is above the minimum lot of the symbol, which
\* it returns instead of any smaller quantity.
C6_PositiveLinearAboveMinLot ==
    \A a \in sizer : (a.called /\ C5_valid(a)) =>
        /\ RGt(a.replay, R(0)) /\ RGt(a.live, R(0))
        /\ C6_linear_replay(a)
        /\ RGt(a.live, min_size(a.symbol)) => C6_linear_live(a)
        /\ RGe(a.live, min_size(a.symbol))

\* A call on valid arguments whose live quantity is above the minimum lot.
C6_Witness ==
    \E a \in sizer :
        /\ a.called /\ C5_valid(a) /\ RGt(a.live, min_size(a.symbol))
        /\ C6_live(a, a.risk, a.k * a.lev) = RMul(R(a.k), a.live)
        /\ a.k = 3 /\ a.lev = 1

\* What a step of run_bot is about: the symbol it visits, that symbol's
\* position before and after the step.
C3_symbol == Head(todo)
C3_open_before(s) == has_position(bot_self, s)
C3_before(s) == position_of(bot_self, s)
C3_open_after(s) == has_position([open_positions |-> open_positions'], s)
C3_after(s) == position_of([open_positions |-> open_positions'], s)

\* C3: once trailing_active is true for a position, its stop_loss is
\* non-decreasing over every later step until the position closes: a step
\* that changes the stop_loss of such a position sets it strictly higher.
C3_StopNeverLowered ==
    [][\A s \in Symbols :
         (C3_open_before(s) /\ C3_before(s).trailing_active /\ C3_open_after(s))
             => /\ C3_after(s).trailing_active
                /\ RGe(C3_after(s).stop_loss, C3_before(s).stop_loss)]_vars

\* A position whose stop_loss a new high had moved above the level set at
\* the activation has been checked on a later candle, below that high, and
\* stays open.
C3_Witness ==
    /\ Live /\ decision = Some([should_exit |-> FALSE, reason |-> ""])
    /\ \E k \in 1..Len(open_positions), r \in row :
          /\ open_positions[k].trailing_active
          /\ RLt(r.close, open_positions[k].highest_price)
          /\ RGt(open_positions[k].stop_loss,
                 RMul(open_positions[k].entry_price,
                      RAdd(R(1), trailing_distance)))

\* A step of manage_open_positions on an open position, with a snapshot
\* whose oscillator is defined.
C4_checks ==
    /\ Live /\ pc = "manage" /\ C3_open_before(C3_symbol)
    /\ \E r \in row' : r.rsi # None
\* What check_exit_signal returns on the snapshot and the position.
C4_replay ==
    check_exit_signal(Val(row'), C3_before(C3_symbol).entry_price,
                      C3_before(C3_symbol).highest_price)

\* C4 as stated: on the same snapshot and the same open position the live
\* exit check decides what the replay exit check decides, the same close
\* or no-close answer and the same reason.
C4_SameDecision ==
    [][C4_checks =>
         decision' = Some([should_exit |-> C4_replay[1],
                           reason |-> C4_replay[2]])]_vars

\* C7: when the balance read by the sizer is <= 0 (a read that failed
\* returns 0), the open-request is aborted: the step sends no order and
\* creates no position.
C7_NoOpenWithoutBalance ==
    [][(Live /\ pc = "analyze"
          /\ \E r \in row' : "balance" \in DOMAIN r /\ RLe(r.balance, R(0)))
         => UNCHANGED <<open_positions, xch_position, xch_orders>>]_vars

\* C8: a losing close at a time >= paused_until finds the pause cleared and
\* the counter at 0: it leaves consecutive_losses = 1 and no pause.
C8_FreshStartAfterPause ==
    [][((\E p \in paused_until : current_time' >= p)
          /\ Len(trades') > Len(trades) /\ consecutive_losses' > 0)
         => (consecutive_losses' = 1 /\ paused_until' = None)]_vars

\* The entry conditions on the candle read in a step: the oscillator is
\* defined and below the oversold threshold, the volume ratio is above the
\* multiplier (both strictly), and the breaker is not paused at the step's
\* time.
C9_signal(r) ==
    /\ "volume_ratio" \in DOMAIN r
    /\ \E v \in r.rsi : v < rsi_oversold
    /\ RGt(r.volume_ratio, volume_multiplier)
C9_paused == \E p \in paused_until : current_time' < p
\* Replay: a position is opened in the step exactly on these conditions.
C9_replay_fires == ~in_position /\ in_position'
C9_replay_iff ==
    Replay =>
        (C9_replay_fires <=>
            (pc = "loop" /\ ~in_position /\ ~C9_paused
               /\ \E r \in row' : C9_signal(r)))
C9_replay_price ==
    (Replay /\ C9_replay_fires) => \E r \in row' : entry_price' = r.close
\* Live: analyze_and_trade asks for a position exactly on these conditions.
C9_live_fires == decision' = Some([should_enter |-> TRUE])
C9_live_iff ==
    (Live /\ pc = "analyze") =>
        (C9_live_fires <=>
            (~C3_open_before(C3_symbol) /\ ~C9_paused
               /\ \E r \in row' : C9_signal(r)))
C9_live_created ==
    Live /\ pc = "analyze" /\ ~C3_open_before(C3_symbol)
        /\ C3_open_after(C3_symbol)

C10_UndefinedOscillatorNoChange ==
    [][(\E r \in row' : "rsi" \in DOMAIN r /\ r.rsi = None)
         => /\ UNCHANGED <<in_position, entry_price, entry_time,
                           position_size, highest_price>>
            /\ Replay => UNCHANGED trades
            /\ Live =>
                 /\ decision' \in {Some([should_enter |-> FALSE]),
                                   Some([should_exit |-> FALSE, reason |-> ""])}
                 /\ C3_open_after(C3_symbol) => C3_open_before(C3_symbol)
                 /\ (C3_open_before(C3_symbol) /\ C3_open_after(C3_symbol))
                        => C3_after(C3_symbol) = C3_before(C3_symbol)]_vars

\* At most one position per key of open_positions.
C11_one_per_symbol ==
    \A j, k \in 1..Len(open_positions) :
        open_positions[j].symbol = open_positions[k].symbol => j = k
\* close_position and check_funding_rate on a symbol without position
\* return self and the exchange as they were, whatever the exchange would
\* answer.
C11_flat_close ==
    \A s \in Symbols :
        ~has_position(bot_self, s) =>
            \A c \in LivePrices : \A a \in CloseAnswers(c) :
                /\ close_position(bot_self, s, "RSI_EXIT", current_time, a)
                       = bot_self
                /\ check_funding_rate(bot_self, s, TRUE, current_time, a)
                       = bot_self
\* analyze_and_trade on a symbol with a position: no order, no position, no
\* row of the CSV file; the breaker changes only as is_paused, called before
\* the test of the position, resumes it when the pause has elapsed.
C11_open_request ==
    (Live /\ pc = "analyze" /\ C3_open_before(C3_symbol)) =>
        /\ UNCHANGED <<open_positions, xch_position, xch_orders, xch_next_id,
                       trades, faults>>
        /\ consecutive_losses' =
               is_paused(bot_self, current_time).self.consecutive_losses
        /\ paused_until' = is_paused(bot_self, current_time).self.paused_until
\* Replay: a row read in position with no exit leaves the position as it
\* was, and a row read out of position closes no trade.
C11_replay ==
    (Replay /\ pc = "loop") =>
        /\ (in_position /\ in_position') =>
               UNCHANGED <<entry_price, entry_time, position_size, balance,
                           trades>>
        /\ ~in_position => UNCHANGED <<balance, trades>>

\* C11: there is at most one open position per symbol; an open-request for
\* a symbol with a position places no order, creates no position and logs
\* no trade, and a close-request for a symbol without position changes
\* nothing.
C11_AtMostOnePosition ==
    /\ [](C11_one_per_symbol /\ C11_flat_close)
    /\ [][C11_open_request /\ C11_replay]_vars

\* analyze_and_trade, not paused, has just returned at the test of the
\* position: the symbol's position is still the only one.
C11_Witness ==
    /\ Live /\ pc = "sleep" /\ current_time % 60 = 5
    /\ decision = None /\ paused_until = None
    /\ Len(open_positions) = 1

\* The breaker is in a pause, before and after the step.
C12_paused ==
    /\ \E p \in paused_until : current_time < p
    /\ \E p \in paused_until' : current_time' < p
\* The step starts or extends a pause.
C12_pauses == paused_until' # None /\ paused_until' # paused_until

\* C12: starting or being in a pause closes no position.  Live, a position
\* leaves open_positions only in the step of manage_open_positions on its
\* own symbol, by a close_position that logs the trade, paused or not, and
\* a step that starts a pause leaves the positions of the other symbols as
\* they were.  In replay no position is open when a pause starts or lasts,
\* so the rows skipped during a pause skip no exit check.
C12_PauseClosesNothing ==
    /\ [](Replay => (in_position => paused_until = None))
    /\ [][Live =>
            \A s \in Symbols :
              /\ (C3_open_before(s) /\ ~C3_open_after(s))
                    => /\ pc = "manage" /\ s = C3_symbol
                       /\ Len(trades') = Len(trades) + 1
              /\ (C3_open_before(s) /\ (C12_pauses \/ C12_paused)
                    /\ ~(pc = "manage" /\ s = C3_symbol))
                    => (C3_open_after(s) /\ C3_after(s) = C3_before(s))]_vars

\* A position of one symbol was closed at a profit during the pause that
\* three losses had started, and the pause lasts.
C12_Witness ==
    /\ Live /\ Len(trades) = max_consecutive_losses + 1
    /\ consecutive_losses = 0
    /\ \E p \in paused_until : current_time < p

\* self and the exchange after the step.
C13_self_after ==
    [open_positions |-> open_positions',
     consecutive_losses |-> consecutive_losses',
     paused_until |-> paused_until',
     trades |-> trades',
     trade |-> None,
     xch_position |-> xch_position',
     xch_orders |-> xch_orders',
     xch_next_id |-> xch_next_id']
\* A step of manage_open_positions that decides to close the position and
\* whose market order fails: the exchange holds what it held.
C13_close_fails ==
    /\ Live /\ pc = "manage" /\ C3_open_before(C3_symbol)
    /\ \E d \in decision' : d.should_exit
    /\ xch_position' = xch_position

\* C13: when the market order of a close fails, the position stays in
\* open_positions with its fields unchanged, no trade is logged, and
\* consecutive_losses and paused_until are unchanged; a later close_position
\* whose order fills then closes the position.
C13_FailedCloseKeepsPosition ==
    [][C13_close_fails =>
         /\ C3_open_after(C3_symbol)
         /\ C3_after(C3_symbol) = C3_before(C3_symbol)
         /\ trade' = None
         /\ UNCHANGED <<trades, consecutive_losses, paused_until>>
         /\ \A c \in LivePrices : \A a \in CloseAnswers(c) :
              (a.sell.ok /\ a.sell.average # None) =>
                  LET retried == close_position(C13_self_after, C3_symbol,
                                                "RSI_EXIT", current_time', a)
                  IN  /\ ~has_position(retried, C3_symbol)
                      /\ Len(retried.trades) = Len(trades) + 1]_vars

\* After a close whose market order failed: the stop order had been
\* cancelled, the exchange still holds the quantity, the position is
\* recorded.
C13_Witness ==
    /\ Live /\ decision = Some([should_exit |-> TRUE, reason |-> "RSI_EXIT"])
    /\ faults < MaxFaults
    /\ \E k \in 1..Len(open_positions) :
          /\ xch_position[open_positions[k].symbol] = open_positions[k].quantity
          /\ ~xch_has(bot_self, open_positions[k].sl_order_id)
          /\ trades = <<>>

\* A step of analyze_and_trade in which open_position is called: the call
\* that raised, if any, is recorded in the row.
C14_outcome(o) ==
    /\ Live /\ pc = "analyze"
    /\ \E r \in row' : "outcome" \in DOMAIN r /\ r.outcome = o

\* C14: a position is recorded for a symbol only in a step whose market
\* order went through, the exchange then holding the position's quantity
\* more; when set_leverage or the market order fails, open_positions and
\* the exchange are unchanged.
C14_PositionOnlyAfterFill ==
    [][/\ C9_live_created =>
            /\ C14_outcome("ok")
            /\ xch_position'[C3_symbol] =
                   RAdd(xch_position[C3_symbol], C3_after(C3_symbol).quantity)
       /\ (C14_outcome("leverage_fails") \/ C14_outcome("market_fails")) =>
            UNCHANGED <<open_positions, xch_position, xch_orders,
                        xch_next_id>>]_vars

\* An entry signal whose market order failed: no position was recorded.
C14_Witness ==
    /\ Live /\ decision = Some([should_enter |-> TRUE])
    /\ open_positions = <<>>
    /\ \E r \in row : r.outcome = "market_fails"

\* Every open position has highest_price >= entry_price.
C15_at_least_entry ==
    /\ (Replay /\ in_position) => RGe(highest_price, entry_price)
    /\ \A k \in 1..Len(open_positions) :
          RGe(open_positions[k].highest_price, open_positions[k].entry_price)
\* A position created in the step has highest_price = entry_price; the
\* highest_price of a position that stays open changes only to the close
\* of the candle read in the step, strictly above the old value.
C15_replay_step ==
    Replay =>
        /\ (~in_position /\ in_position') => highest_price' = entry_price'
        /\ (in_position /\ in_position' /\ highest_price' # highest_price) =>
              /\ \E r \in row' : highest_price' = r.close
              /\ RGt(highest_price', highest_price)
C15_live_step ==
    Live => \A s \in Symbols :
        /\ (~C3_open_before(s) /\ C3_open_after(s)) =>
              C3_after(s).highest_price = C3_after(s).entry_price
        /\ (C3_open_before(s) /\ C3_open_after(s)
              /\ C3_after(s).highest_price # C3_before(s).highest_price) =>
              /\ \E r \in row' : C3_after(s).highest_price = r.close
              /\ RGt(C3_after(s).highest_price, C3_before(s).highest_price)

\* C15: every open position has highest_price >= entry_price; highest_price
\* is the entry price at creation and is afterwards only replaced by a
\* strictly larger candle price.
C15_HighestAtLeastEntry ==
    []C15_at_least_entry /\ [][C15_replay_step /\ C15_live_step]_vars

\* A live position whose highest_price is above its entry price, checked on
\* a later candle below that high.
C15_Witness ==
    /\ Live
    /\ \E k \in 1..Len(open_positions), r \in row :
          /\ RGt(open_positions[k].highest_price, open_positions[k].entry_price)
          /\ RLt(r.close, open_positions[k].highest_price)

\* C16: every position has quantity > 0, after any sequence of earlier
\* trades.  In replay the balance that the sizer reads stays positive
\* through the net PnL of every trade (closes within Prices), so the
\* quantity computed from it is positive; live, open_position records no
\* position whose quantity is not positive.
C16_QuantityPositive ==
    /\ Replay => RGt(balance, R(0))
    /\ (Replay /\ in_position) => RGt(position_size, R(0))
    /\ \A k \in 1..Len(open_positions) :
          RGt(open_positions[k].quantity, R(0))

\* A replay position sized after two losing trades.
C16_Witness ==
    /\ Replay /\ in_position /\ RGt(position_size, R(0))
    /\ Len(trades) >= 2 /\ \A k \in 1..Len(trades) : trades[k].loss

\* The locals of a close on entry price e, exit price x and quantity q, as
\* the claim states them.
C17_stated(e, x, q) ==
    LET pnl_gross == RMul(RSub(x, e), q)
        commission == RMul(RMul(RAdd(e, x), q), Frac(4, 10000))
    IN  [pnl_percent |-> RDiv(RSub(x, e), e), pnl_usdt |-> pnl_gross,
         commission |-> commission, net_pnl |-> RSub(pnl_gross, commission)]

\* C17: for every closed trade the gross PnL computed is (exit_price -
\* entry_price) * quantity, the commission is (entry_price + exit_price) *
\* quantity * 0.0004 and is not negative, and the net PnL is their
\* difference, live and in replay alike; entry 100, exit 106 and quantity
\* 1 give commission 0.0824 and net PnL 5.9176.
C17_PnlAndCommission ==
    /\ \A tr \in trade :
          /\ tr.locals = C17_stated(tr.entry_price, tr.exit_price, tr.quantity)
          /\ RGe(tr.locals.commission, R(0))
          /\ bt_pnl(tr.entry_price, tr.exit_price, tr.quantity)
                 = bot_pnl(tr.entry_price, tr.exit_price, tr.quantity)
    /\ bt_pnl(R(100), R(106), R(1)).commission = Frac(824, 10000)
    /\ bt_pnl(R(100), R(106), R(1)).net_pnl = Frac(59176, 10000)
    /\ bot_pnl(R(100), R(106), R(1)).commission = Frac(824, 10000)
    /\ bot_pnl(R(100), R(106), R(1)).net_pnl = Frac(59176, 10000)

\* A trade entered at 100 and closed at 106: on its quantity of 10 the
\* commission is 0.824 and the net PnL 59.176.
C17_Witness ==
    \E tr \in trade :
        /\ tr.entry_price = R(100) /\ tr.exit_price = R(106)
        /\ tr.quantity = R(10)
        /\ tr.locals.commission = Frac(824, 1000)
        /\ tr.locals.net_pnl = Frac(59176, 1000)

\* A replay row read in position, with the oscillator defined: the highest
\* price that the exit check sees, the trailing level, and whether the
\* profit has reached the trigger on this or an earlier row of the position.
C18_checks ==
    /\ Replay /\ pc = "loop" /\ in_position
    /\ \E r \in row' : r.rsi # None
C18_highest(r) == RMax(highest_price, r.close)
C18_level(r) == RMul(C18_highest(r), RSub(R(1), trailing_distance))
C18_reached(r) ==
    RGe(profit_percent_of(C18_highest(r), entry_price), trailing_trigger)
C18_higher_priority(r) ==
    LET pp == profit_percent_of(r.close, entry_price)
    IN  \/ rsi_gt(r.rsi, rsi_overbought)
        \/ RGe(pp, tp_percent)
        \/ RLe(pp, RNeg(sl_percent))

\* C18: once the profit of a position has reached trailing_trigger, a row
\* on which no exit of higher priority matches and the price is at or
\* below highest_price * (1 - trailing_distance) closes the position with
\* reason TRAILING_SL at that level; no position whose profit never reached
\* the trigger closes with TRAILING_SL.
C18_TrailingExit ==
    [][C18_checks =>
         \A r \in row' :
            /\ (C18_reached(r) /\ ~C18_higher_priority(r)
                   /\ RLe(r.close, C18_level(r)))
                  => \E tr \in trade' : /\ tr.reason = "TRAILING_SL"
                                        /\ tr.exit_price = C18_level(r)
            /\ (\E tr \in trade' : tr.reason = "TRAILING_SL")
                  => C18_reached(r)]_vars

\* A step of manage_open_positions whose check reaches the trailing-stop
\* management with the profit at the trigger for the first time, and
\* leaves the position open.
C19_activates ==
    /\ Live /\ pc = "manage" /\ C3_open_before(C3_symbol)
    /\ \E r \in row' : /\ ~rsi_gt(r.rsi, rsi_overbought)
                       /\ bot_activates(C3_before(C3_symbol), r.close)
    /\ C3_open_after(C3_symbol)
\* The level locked in at the activation, and the level of the new high.
C19_locked == RMul(C3_before(C3_symbol).entry_price,
                   RAdd(R(1), trailing_distance))
C19_of_high(r) == RMul(r.close, RSub(R(1), trailing_distance))

C20_CounterFollowsNetPnl ==
    [][\A tr \in trade' :
         LET pnl_net == C17_stated(tr.entry_price, tr.exit_price,
                                   tr.quantity).net_pnl
         IN  consecutive_losses' =
                 IF RLt(pnl_net, R(0)) THEN consecutive_losses + 1 ELSE 0]_vars

\* A close whose net PnL is negative and is logged, rounded, as 0 has
\* counted as a loss.
C20_Witness ==
    /\ consecutive_losses = 1
    /\ \E tr \in trade :
          /\ tr.pnl_usdt = R(0)
          /\ RLt(tr.locals.net_pnl, R(0))

\* The step sets paused_until; the time, in the clock's unit, to which a
\* close at the time of the step sets it.
C21_sets == paused_until' # None /\ paused_until' # paused_until
C21_deadline ==
    Some(current_time' + (IF Live THEN pause_hours * 60 ELSE pause_hours))
C21_set_by_close ==
    C21_sets =>
        /\ Len(trades') = Len(trades) + 1
        /\ consecutive_losses' >= max_consecutive_losses
        /\ paused_until' = C21_deadline
C21_at_threshold ==
    paused_until # None => consecutive_losses >= max_consecutive_losses

\* C21 as stated: paused_until is set only by a close that leaves
\* consecutive_losses >= max_consecutive_losses, to the time of the close
\* plus 24 hours, and in every state paused_until being set implies
\* consecutive_losses >= max_consecutive_losses.
C21_PausedImpliesThreshold ==
    []C21_at_threshold /\ [][C21_set_by_close]_vars

\* C21, amended: paused_until is set only by such a close, to its time plus
\* 24 hours.  In replay paused_until being set implies consecutive_losses
\* >= max_consecutive_losses.  Live it implies so until a close without
\* loss, of a position that stayed open through the pause, resets the
\* counter to 0 and leaves paused_until set.
C21_PauseSetAtThreshold ==
    /\ [](Replay => C21_at_threshold)
    /\ [][/\ C21_set_by_close
          /\ (Live /\ C21_at_threshold /\ paused_until # None
                /\ paused_until' # None
                /\ consecutive_losses' < max_consecutive_losses)
                => /\ consecutive_losses' = 0
                   /\ paused_until' = paused_until
                   /\ Len(trades') = Len(trades) + 1]_vars

\* A live close has just left the counter at the threshold and set the
\* pause to its time plus 24 hours, with the other symbol's position open.
C21_Witness ==
    /\ Live /\ consecutive_losses = max_consecutive_losses
    /\ paused_until = Some(current_time + pause_hours * 60)
    /\ Len(open_positions) = 1

\* ------------------------------------------------------------------ C22

\* A row of the replay is read, or analyze_and_trade runs, at a time at or
\* after the deadline of a pause.
C22_evaluates ==
    /\ paused_until # None
    /\ IF Replay
       THEN /\ n_rows' # n_rows
            /\ current_time' >= Val(paused_until)
       ELSE /\ pc = "analyze" /\ todo' # todo
            /\ current_time >= Val(paused_until)
\* Each row of the replay is later than the one before, and each iteration
\* of run_bot starts later than the one before.
C22_clock_advances ==
    (n_rows' # n_rows \/ (Live /\ pc = "sleep" /\ pc' # "sleep"))
        => current_time' > current_time
\* No row is left in the data frame and the last one read is before the
\* deadline of the pause; run_bot has stopped.
C22_no_more ==
    IF Replay
    THEN /\ pc # "loop" \/ SumRows(n_rows, Len(symbols)) >= RowLimit
         /\ \A p \in paused_until : current_time < p
    ELSE /\ pc = "sleep"
         /\ \A dh \in HourSteps, minute \in Minutes :
                LET hour == current_time \div 60 + dh
                IN  \/ hour * 60 + minute <= current_time
                    \/ hour % 24 > LiveHours
                    \/ hour \div 24 > LiveDays
\* C22: a pause ends.  The first row read, or the first analyze_and_trade
\* run, at or after paused_until clears paused_until; time advances with
\* every row and every iteration; so every pause is eventually cleared,
\* unless the rows end before its deadline or run_bot is stopped.
C22_PauseEnds ==
    /\ [][C22_evaluates => paused_until' = None]_vars
    /\ [][C22_clock_advances]_vars
    /\ (paused_until # None) ~> (paused_until = None \/ C22_no_more)
\* After three losses in a flat market and the pause they caused, both
\* symbols are entered again.
C22_Witness ==
    /\ Live /\ paused_until = None /\ consecutive_losses = 0
    /\ Len(trades) >= max_consecutive_losses
    /\ Len(open_positions) = Len(symbols)
    /\ current_time >= pause_hours * 60

\* ------------------------------------------------------------------ C23

\* The second call is in progress, or has returned.
C23_second_call == mode = "rerun" /\ sym = 2 /\ pc = "loop"
C23_both_returned == mode = "rerun" /\ sym = 3
\* The trades of the first call for the rows that the second has read.
C23_first(n) == SelectSeq(all_trades, LAMBDA x : x.timestamp <= n)
\* C23: run_backtest_symbol called twice on one object with the same df
\* returns the same list of trades.  While the second call runs, its list
\* is the first call's list up to the row reached; once both have
\* returned, the two lists are equal.
C23_SameTrades ==
    /\ C23_second_call => trades = C23_first(current_time)
    /\ (C23_second_call /\ df = <<>>) => trades = all_trades
    /\ C23_both_returned => all_trades = trades \o trades
\* Both calls have returned two trades and ended with a loss counted and
\* a position open.
C23_Witness ==
    /\ C23_both_returned /\ Len(trades) = 2
    /\ in_position /\ consecutive_losses > 0

\* ------------------------------------------------------------------ C24

\* What a second evaluation may be given: the same snapshot (None: no data
\* came), an outcome of the calls of update_stop_loss for each evaluation,
\* and the times of the clock now and one pause later.
C24_snapshots ==
    {None} \cup {Some([rsi |-> v, close |-> R(c)]) :
                     v \in RsiValues, c \in LivePrices}
C24_outcomes == {"ok", "cancel_fails", "create_fails"}
C24_times == {current_time, current_time + pause_hours * 60}
\* check_exit_conditions decides the same when it is evaluated again on the
\* Position that its first evaluation left.
C24_exit_twice ==
    \A k \in 1..Len(open_positions), snapshot \in C24_snapshots :
        \A out1, out2 \in C24_outcomes :
            LET s == open_positions[k].symbol
                first == check_exit_conditions(bot_self, s, snapshot,
                                               out1, out1)
                second == check_exit_conditions(first.self, s, snapshot,
                                                out2, out2)
            IN  /\ second.should_exit = first.should_exit
                /\ second.reason = first.reason
\* is_paused answers the same when it is evaluated again on the risk state
\* that its first evaluation left.
C24_paused_twice ==
    \A now \in C24_times :
        LET first == is_paused(bot_self, now)
        IN  is_paused(first.self, now).paused = first.paused
\* C24: evaluated twice on the same snapshot with no open or close in
\* between, the live signal functions return the same decision, though the
\* first evaluation may have moved the trailing state or ended the pause.
\* The replay's check_entry_signal and check_exit_signal change nothing:
\* they are evaluated on the row and the locals alone.
C24_SameDecisionTwice ==
    Live => C24_exit_twice /\ C24_paused_twice
\* A pause that is_paused would end, and a position whose trailing stop
\* check_exit_conditions would activate.
C24_Witness ==
    /\ Live /\ paused_until # None
    /\ is_paused(bot_self, current_time + pause_hours * 60).self # bot_self
    /\ \E k \in 1..Len(open_positions) :
          /\ ~open_positions[k].trailing_active
          /\ check_exit_conditions(bot_self, open_positions[k].symbol,
                 Some([rsi |-> Some(20), close |-> R(103)]), "ok", "ok").self
                 # bot_self

\* ------------------------------------------------------------------ C25

\* The row read is not later than the row read before it in this call.
C25_out_of_order ==
    /\ Replay /\ pc = "loop"
    /\ n_rows[bt_symbol] > 0 /\ n_rows' # n_rows
    /\ current_time' <= current_time
\* C25: a row that is out of time order is rejected: the position, the
\* count of losses, the pause and the list of trades are as before it.
C25_OutOfOrderRejected ==
    [][C25_out_of_order =>
          UNCHANGED <<in_position, entry_price, entry_time, position_size,
                      highest_price, consecutive_losses, paused_until,
                      trades>>]_vars

\* ------------------------------------------------------------------ C26

\* The step records a Position for s.
C26_creates(s) ==
    /\ Live
    /\ ~has_position(bot_self, s)
    /\ has_position(C13_self_after, s)
\* The Position's levels are the stated fractions of its own entry_price.
C26_levels(p) ==
    /\ p.stop_loss = RMul(p.entry_price, RSub(R(1), sl_percent))
    /\ p.take_profit = RMul(p.entry_price, RAdd(R(1), tp_percent))
    /\ p.highest_price = p.entry_price
    /\ ~p.trailing_active
\* C26: a position is created with stop_loss and take_profit at the stated
\* fractions of the entry price it stores, highest_price equal to that
\* entry price and trailing_active false; the replay's entry sets
\* highest_price to entry_price.
C26_LevelsFromEntryPrice ==
    [][/\ \A s \in Symbols :
             C26_creates(s) => C26_levels(position_of(C13_self_after, s))
       /\ (Replay /\ ~in_position /\ in_position')
             => highest_price' = entry_price']_vars

\* ------------------------------------------------------------------ C27

\* The exit price that the replay records for a close, by its reason.
C27_recorded(tr, r) ==
    /\ tr.reason = "TP"
          => tr.exit_price = RMul(tr.entry_price, RAdd(R(1), tp_percent))
    /\ tr.reason = "SL"
          => tr.exit_price = RMul(tr.entry_price, RSub(R(1), sl_percent))
    /\ tr.reason = "RSI_EXIT" => tr.exit_price = r.close
\* C27: the replay records a TP close at entry_price × (1 + tp_percent) and
\* an SL close at entry_price × (1 - sl_percent), whatever the close of the
\* row, and an RSI_EXIT close at the close of the row.
C27_ExitPriceByReason ==
    Replay => \A tr \in trade, r \in row : C27_recorded(tr, r)
\* A TP close on a row that closed above the take-profit level.
C27_Witness ==
    \E tr \in trade, r \in row :
        /\ Replay /\ tr.reason = "TP"
        /\ RGt(r.close, tr.exit_price)

\* ------------------------------------------------------------------ C28

\* The step closes a position: a trade is appended.
C28_closes == Len(trades') = Len(trades) + 1
\* The step ends a pause whose deadline has come: the row read by the
\* replay, or the clock of run_bot, is at or after paused_until.
C28_resumes ==
    /\ paused_until # None /\ paused_until' = None
    /\ consecutive_losses' = 0
    /\ current_time' >= Val(paused_until)
\* A call of run_backtest_symbol starts with locals of its own.
C28_new_call == Replay /\ pc = "start"
\* C28: within a run, consecutive_losses and paused_until change only in a
\* step that closes a position or that ends a pause at a time at or after
\* paused_until; every other row or iteration leaves both as they were.
C28_RiskStateFrame ==
    [][(consecutive_losses' # consecutive_losses
           \/ paused_until' # paused_until)
          => C28_closes \/ C28_resumes \/ C28_new_call]_vars
\* run_bot after a pause that is_paused ended, with no position open.
C28_Witness ==
    /\ Live /\ paused_until = None /\ consecutive_losses = 0
    /\ Len(trades) >= max_consecutive_losses
    /\ open_positions = <<>>
    /\ current_time >= pause_hours * 60

\* ------------------------------------------------------------------ C29

\* How many positions the step clears: the replay's one position, or the
\* symbols that leave open_positions.
C29_cleared ==
    IF Replay THEN (IF in_position /\ ~in_position' THEN 1 ELSE 0)
    ELSE Cardinality({s \in Symbols : /\ has_position(bot_self, s)
                                      /\ ~has_position(C13_self_after, s)})
\* The records written before the step are all there after it, unchanged
\* and in the same order.
C29_append_only ==
    /\ Len(trades') >= Len(trades)
    /\ SubSeq(trades', 1, Len(trades)) = trades
\* C29: within a run, a step clears a position exactly when it appends a
\* trade record, one record for one position, and it leaves the earlier
\* records as they were: the records count the closes.
C29_OneRecordPerClose ==
    [][~C28_new_call =>
          /\ C29_append_only
          /\ Len(trades') - Len(trades) = C29_cleared
          /\ C29_cleared <= 1]_vars
\* run_bot has closed its position for the funding cost and written the
\* record.
C29_Witness ==
    /\ Live /\ open_positions = <<>>
    /\ trades = <<Some([symbol |-> symbols[1],
                        reason |-> "HIGH_FUNDING_COST"])>>
    /\ trade # None

\* ------------------------------------------------------------------ C30

\* The step's market buy order for s is filled: the exchange holds more of
\* s than before.
C30_filled(s) == Live /\ RGt(xch_position'[s], xch_position[s])
\* C30: whenever the entry market order is filled, a Position for the
\* symbol is in open_positions after the step, whether or not the stop and
\* take-profit orders were placed.
C30_FilledEntryIsTracked ==
    [][\A s \in Symbols :
          C30_filled(s) => has_position(C13_self_after, s)]_vars

\* ------------------------------------------------------------------ C31

\* The stop orders that rest at the exchange for the position p, at the
\* stop_loss that p records.
C31_stops(p) ==
    {o \in xch_orders : /\ o.symbol = p.symbol /\ o.type = "stop"
                        /\ o.price = p.stop_loss}
\* C31: every position in open_positions has one resting stop order at the
\* exchange, with the stop_loss of the position as its trigger price.
C31_StopOrderMatches ==
    Live => \A k \in 1..Len(open_positions) :
                Cardinality(C31_stops(open_positions[k])) = 1

\* ------------------------------------------------------------------ C32

\* A pause is in force at the time of the step, and the step closes a
\* position.
C32_close_in_pause ==
    /\ \E p \in paused_until : current_time' < p
    /\ Len(trades') = Len(trades) + 1
\* C32: a close of a position while a pause is in force leaves paused_until
\* as it was.
C32_PauseNotExtended ==
    [][C32_close_in_pause => paused_until' = paused_until]_vars

\* ------------------------------------------------------------------ C33

\* The sign of the net result of a close, and what the count of losses
\* becomes, by the reason of the close.
C33_by_reason(tr) ==
    /\ tr.reason = "SL"
          => /\ RLt(tr.locals.net_pnl, R(0))
             /\ consecutive_losses' = consecutive_losses + 1
    /\ tr.reason \in {"TP", "TRAILING_SL"}
          => /\ RGt(tr.locals.net_pnl, R(0))
             /\ consecutive_losses' = 0
\* C33: in the replay, a close with reason SL has a negative net result and
\* adds one to consecutive_losses; a close with reason TP or TRAILING_SL
\* has a positive net result and sets consecutive_losses to 0.
C33_SignByReason ==
    [][Replay => \A tr \in trade' : C33_by_reason(tr)]_vars
\* A TP close after a loss has reset the count.
C33_Witness ==
    /\ Replay /\ consecutive_losses = 0 /\ Len(trades) = 2
    /\ trades[1].loss
    /\ \E tr \in trade : tr.reason = "TP"

\* ------------------------------------------------------------------ C34

\* The for loop of the last call of run_backtest_symbol has ended; its
\* locals are as it left them.
C34_run_ended == Replay /\ pc # "loop" /\ sym > 1
\* C34: when a run has read its last row, no position is open: every
\* position that the run opened has its trade record.
C34_NoPositionLeftOpen == C34_run_ended => ~in_position

\* ------------------------------------------------------------------ C35

\* The step reads a row of the replay.
C35_row == Replay /\ n_rows' # n_rows
\* C35: a row of the replay opens a position or closes one, never both.  A
\* row read with no position open appends no trade, and a row that appends
\* a trade had a position open and leaves none: the symbol re-enters on a
\* later row at the earliest.
C35_OneTransitionPerRow ==
    [][C35_row =>
          /\ ~in_position => trades' = trades
          /\ trades' # trades => in_position /\ ~in_position'
          /\ Len(trades') <= Len(trades) + 1]_vars
\* A stop-loss close on a row that is oversold; no position is open after
\* it.
C35_Witness ==
    \E tr \in trade, r \in row :
        /\ Replay /\ ~in_position
        /\ tr.reason = "SL" /\ rsi_lt(r.rsi, rsi_oversold)

\* ------------------------------------------------------------------ C36

\* An iteration of run_bot starts at minute 0 of an hour.
C36_minute_0 ==
    /\ Live /\ observe /\ pc = "sleep"
    /\ current_time' # current_time /\ current_time' % 60 = 0
\* C36: the iteration of run_bot that starts at minute 0 writes the status
\* line, ACTIVE or PAUSED.
C36_StatusAtMinute0 ==
    [][C36_minute_0 =>
          decision' \in {Some([status |-> "ACTIVE"]),
                         Some([status |-> "PAUSED"])}]_vars

\* ------------------------------------------------------------------ C37

\* `close` on mainnet, and the operator types something other than YES.
C37_declined ==
    \E c \in closer :
        c.command = "close" /\ ~c.env_testnet /\ c.input # "YES"
\* `force` goes from the confirmation to get_open_positions.
C37_force_proceeds ==
    \A c \in closer :
        (c.command = "force" /\ c.pc = "confirm")
            => \A d \in closer' : d.pc = "fetch" /\ ~d.asked
\* C37: with `close` on mainnet, emergency_close_all cancels no order and
\* closes no position unless the operator types exactly YES; with `force`
\* it goes on without asking.
C37_ConfirmationGuardsClose ==
    [][/\ C37_declined => UNCHANGED <<xch_orders, xch_position>>
       /\ C37_force_proceeds]_vars
\* The operator typed yes in lower case: the script has ended, and the
\* positions and orders are all there.
C37_Witness ==
    /\ \E c \in closer :
          /\ c.command = "close" /\ ~c.env_testnet /\ c.input = "yes"
          /\ c.asked /\ c.pc = "done"
    /\ xch_orders = EmOrders
    /\ \A s \in Symbols : xch_position[s] = R(10)

====
